---- MODULE Spec2Model ----
(***************************************************************************)
(* Model of the caselaw-search query pipeline:                             *)
(*   backend/app/api/endpoints/search.py     search_cases and its helpers  *)
(*   backend/services/cache_service.py       the Redis response cache      *)
(*   backend/services/web_search_service.py  the Tavily web search wrapper *)
(*   backend/services/vector_search_service.py, llm_service.py  (oracles)  *)
(*                                                                         *)
(* Text is modelled as a sequence of one-character strings, so that        *)
(* lower(), strip(), the two regular expressions and the substring tests   *)
(* are computed character by character as the Python code computes them.   *)
(* Scores are hundredths (0.5 is 50).  None is the Python None.            *)
(***************************************************************************)
EXTENDS Integers, Sequences, FiniteSets, TLC

\* the Python None, and a value that is present; an optional value is a
\* sequence of length 0 or 1
None == << >>
Some(x) == <<x>>

(***************************************************************************)
(* Bounds of the model.                                                    *)
(***************************************************************************)
\* longest list of hits the similarity oracle returns
MaxHits == 3
\* largest number of results one web search reply carries
MaxWeb == 1
\* seconds that pass in one step of the clock
TickSeconds == 1800
\* requests served one after the other in a behaviour of Spec
MaxRequests == 2

\* longest query text of SpecKey
MaxLen == 3

(***************************************************************************)
(* Characters and strings.                                                 *)
(***************************************************************************)
UpperChars == <<"A","B","C","D","E","F","G","H","I","J","K","L","M",
                "N","O","P","Q","R","S","T","U","V","W","X","Y","Z">>
LowerChars == <<"a","b","c","d","e","f","g","h","i","j","k","l","m",
                "n","o","p","q","r","s","t","u","v","w","x","y","z">>
DigitChars == <<"0","1","2","3","4","5","6","7","8","9">>

Range(s) == {s[i] : i \in DOMAIN s}

IsUpper(c) == c \in Range(UpperChars)
IsAlpha(c) == c \in Range(UpperChars) \cup Range(LowerChars)
IsDigit(c) == c \in Range(DigitChars)
\* \w of the re module, on ASCII text
IsWordChar(c) == IsAlpha(c) \/ IsDigit(c) \/ c = "_"
\* what str.strip() removes
IsSpace(c) == c \in {" ", "\t", "\n"}

DigitValue(c) == (CHOOSE i \in DOMAIN DigitChars : DigitChars[i] = c) - 1

\* str.lower() on one character
LowerChar(c) ==
    IF IsUpper(c)
      THEN LowerChars[CHOOSE i \in DOMAIN UpperChars : UpperChars[i] = c]
      ELSE c

\* str.lower()
Lower(s) == [i \in DOMAIN s |-> LowerChar(s[i])]

\* s[lo..hi], empty when hi < lo
Slice(s, lo, hi) == IF hi < lo THEN << >> ELSE SubSeq(s, lo, hi)

\* str.strip(): drops the leading and the trailing whitespace
Strip(s) ==
    LET keep == {i \in DOMAIN s : ~IsSpace(s[i])}
    IN  IF keep = {} THEN << >>
        ELSE LET lo == CHOOSE i \in keep : \A j \in keep : i <= j
                 hi == CHOOSE i \in keep : \A j \in keep : j <= i
             IN  SubSeq(s, lo, hi)

\* p occurs in s at position i
OccursAt(p, s, i) ==
    /\ i >= 1
    /\ i + Len(p) - 1 <= Len(s)
    /\ \A k \in 1..Len(p) : s[i + k - 1] = p[k]

\* the Python test  p in s  on strings
IsSubstr(p, s) == \E i \in 1..(Len(s) + 1) : OccursAt(p, s, i)

RECURSIVE ReplaceFrom(_, _, _, _)
\* str.replace(old, new) scanning s from position i, left to right, without overlap
ReplaceFrom(s, old, new, i) ==
    IF i > Len(s) THEN << >>
    ELSE IF OccursAt(old, s, i)
           THEN new \o ReplaceFrom(s, old, new, i + Len(old))
           ELSE <<s[i]>> \o ReplaceFrom(s, old, new, i + 1)

Replace(s, old, new) == ReplaceFrom(s, old, new, 1)

(***************************************************************************)
(* A text in the state is a TLA+ string; Chars gives its characters.       *)
(***************************************************************************)
Strings ==
    {"law", "law 2023", "Roe v. Wade", " ROE V. WADE ", "Ab Co. v. Xy",
     "hybrid", "corpus_only", "Hybrid",
     "410 U.S. 113", "Ab Company v. Xy Corp.", "1 F. 2", "In re Doe", "2 F. 3", "", " ",
     "Roe v. Wade 1973",
     "Smith Co. v. Jones", "Smith Company v. Jones Corp.", "Smith Co. v. Brown",
     "hybrid:", ":law"}

Chars ==
    [s \in Strings |->
        CASE s = "law" -> <<"l","a","w">>
       [] s = "law 2023" -> <<"l","a","w"," ","2","0","2","3">>
       [] s = "Roe v. Wade" -> <<"R","o","e"," ","v","."," ","W","a","d","e">>
       [] s = " ROE V. WADE " -> <<" ","R","O","E"," ","V","."," ","W","A","D","E"," ">>
       [] s = "Ab Co. v. Xy" -> <<"A","b"," ","C","o","."," ","v","."," ","X","y">>
       [] s = "hybrid" -> <<"h","y","b","r","i","d">>
       [] s = "corpus_only" -> <<"c","o","r","p","u","s","_","o","n","l","y">>
       [] s = "Hybrid" -> <<"H","y","b","r","i","d">>
       [] s = "410 U.S. 113" -> <<"4","1","0"," ","U",".","S","."," ","1","1","3">>
       [] s = "Ab Company v. Xy Corp." -> <<"A","b"," ","C","o","m","p","a","n","y"," ","v","."," ","X","y"," ","C","o","r","p",".">>
       [] s = "1 F. 2" -> <<"1"," ","F","."," ","2">>
       [] s = "In re Doe" -> <<"I","n"," ","r","e"," ","D","o","e">>
       [] s = "2 F. 3" -> <<"2"," ","F","."," ","3">>
       [] s = "" -> <<>>
       [] s = " " -> <<" ">>
       [] s = "Roe v. Wade 1973" ->
            <<"R","o","e"," ","v","."," ","W","a","d","e"," ","1","9","7","3">>
       [] s = "Smith Co. v. Jones" ->
            <<"S","m","i","t","h"," ","C","o","."," ","v","."," ","J","o","n","e","s">>
       [] s = "Smith Company v. Jones Corp." ->
            <<"S","m","i","t","h"," ","C","o","m","p","a","n","y"," ","v","."," ",
              "J","o","n","e","s"," ","C","o","r","p",".">>
       [] s = "Smith Co. v. Brown" ->
            <<"S","m","i","t","h"," ","C","o","."," ","v","."," ","B","r","o","w","n">>
       [] s = "hybrid:" -> <<"h","y","b","r","i","d",":">>
       [] s = ":law" -> <<":","l","a","w">>]

(***************************************************************************)
(* Query signal extraction (search.py, lines 18-46).                       *)
(***************************************************************************)
\* YEAR_PATTERN  \b(1[8-9]\d{2}|20\d{2})\b  matches at position i of t
YearAt(t, i) ==
    /\ i >= 1
    /\ i + 3 <= Len(t)
    /\ \/ t[i] = "1" /\ t[i + 1] \in {"8", "9"}
       \/ t[i] = "2" /\ t[i + 1] = "0"
    /\ IsDigit(t[i + 2])
    /\ IsDigit(t[i + 3])
    /\ (i = 1 \/ ~IsWordChar(t[i - 1]))
    /\ (i + 3 = Len(t) \/ ~IsWordChar(t[i + 4]))

YearValue(t, i) ==
    1000 * DigitValue(t[i]) + 100 * DigitValue(t[i + 1])
      + 10 * DigitValue(t[i + 2]) + DigitValue(t[i + 3])

RECURSIVE YearsFrom(_, _)
\* YEAR_PATTERN.findall: the matches from position i on, left to right, without overlap
YearsFrom(t, i) ==
    IF i > Len(t) THEN << >>
    ELSE IF YearAt(t, i) THEN <<YearValue(t, i)>> \o YearsFrom(t, i + 4)
         ELSE YearsFrom(t, i + 1)

extract_years(text) == YearsFrom(text, 1)

\* the character class  [\w&.,' -]  of CASE_REFERENCE_PATTERN
IsNameChar(c) == IsWordChar(c) \/ c \in {"&", ".", ",", "'", " ", "-"}

\* the literal " v\. " under re.IGNORECASE, at positions j+1..j+4
VersusAt(t, j) ==
    /\ j + 4 <= Len(t)
    /\ t[j + 1] = " "
    /\ LowerChar(t[j + 2]) = "v"
    /\ t[j + 3] = "."
    /\ t[j + 4] = " "

\* the last position e >= k - 1 with t[k..e] all name characters
RunEnd(t, k) ==
    LET ends == {e \in (k - 1)..Len(t) : \A x \in k..e : IsNameChar(t[x])}
    IN  CHOOSE e \in ends : \A f \in ends : f <= e

\* the ends j of the first name for which the pattern matches from start i:
\* t[i] a letter, t[i+1..j] name characters (one at least), " v. " after j,
\* then a letter and one name character at least
SplitsAt(t, i) ==
    {j \in (i + 1)..RunEnd(t, i + 1) :
        /\ VersusAt(t, j)
        /\ j + 6 <= Len(t)
        /\ IsAlpha(t[j + 5])
        /\ IsNameChar(t[j + 6])}

MatchStarts(t) == {i \in DOMAIN t : IsAlpha(t[i]) /\ SplitsAt(t, i) # {}}

\* CASE_REFERENCE_PATTERN.search(text): leftmost start, both + greedy; then strip()
extract_case_reference(text) ==
    IF MatchStarts(text) = {} THEN None
    ELSE LET i == CHOOSE a \in MatchStarts(text) : \A b \in MatchStarts(text) : a <= b
             j == CHOOSE a \in SplitsAt(text, i) : \A b \in SplitsAt(text, i) : b <= a
         IN  Some(Strip(SubSeq(text, i, RunEnd(text, j + 6))))

CoDot == <<"c","o",".">>
Company == <<"c","o","m","p","a","n","y">>
CorpDot == <<"c","o","r","p",".">>
Corporation == <<"c","o","r","p","o","r","a","t","i","o","n">>

\* normalize_name (search.py, lines 36-37)
normalize_name(name) == Replace(Replace(Lower(name), CoDot, Company), CorpDot, Corporation)

\* s.lower() and normalize_name(s) of every text of the model, computed once
LowerOf == [s \in Strings |-> Lower(Chars[s])]

NormalOf == [s \in Strings |-> normalize_name(Chars[s])]

\* extract_years and extract_case_reference of every text of the model,
\* computed once
YearsOf == [s \in Strings |-> extract_years(Chars[s])]

ReferenceOf == [s \in Strings |-> extract_case_reference(Chars[s])]

\* one source covers the reference, without the test of line 44
SourceCoversLiteral(reference, source) ==
    \/ IsSubstr(Lower(reference), LowerOf[source.case_name])
    \/ IsSubstr(Lower(reference), LowerOf[source.citation])

\* one source covers the reference (search.py, lines 40-45)
SourceCovers(reference, source) ==
    \/ IsSubstr(Lower(reference), LowerOf[source.case_name])
    \/ IsSubstr(Lower(reference), LowerOf[source.citation])
    \/ IsSubstr(normalize_name(reference), NormalOf[source.case_name])

\* case_reference_in_sources (search.py, lines 33-46)
case_reference_in_sources(reference, sources) ==
    \E k \in DOMAIN sources : SourceCovers(reference, sources[k])

(***************************************************************************)
(* The corpus store (models/case.py) and the similarity oracle.            *)
(***************************************************************************)
\* the rows of table cases, by id; holding and full_text_url are nullable
CaseTable ==
    [id \in {1, 2, 3} |->
        CASE id = 1 -> [id |-> 1, case_name |-> "Roe v. Wade", citation |-> "410 U.S. 113",
                        court |-> "Supreme Court", year |-> 1973,
                        facts |-> Some("facts of Roe"), holding |-> Some(<<"a"," ","r","i","g","h","t">>),
                        reasoning |-> Some("reasoning of Roe"),
                        full_text_url |-> Some("https://law.example/roe")]
          [] id = 2 -> [id |-> 2, case_name |-> "Ab Company v. Xy Corp.", citation |-> "1 F. 2",
                        court |-> "2d Cir.", year |-> 2020,
                        facts |-> None, holding |-> None, reasoning |-> None,
                        full_text_url |-> None]
          [] id = 3 -> [id |-> 3, case_name |-> "In re Doe", citation |-> "2 F. 3",
                        court |-> "9th Cir.", year |-> 2024,
                        facts |-> None, holding |-> Some(<<"n","o","n","e">>),
                        reasoning |-> None,
                        full_text_url |-> None]]

\* ids the vector index can return: those of the table and one, 4, whose row is gone
IndexedIds == {1, 2, 3, 4}

\* db.query(Case).filter(Case.id == case_id).first()
QueryCase(case_id) == IF case_id \in DOMAIN CaseTable THEN Some(CaseTable[case_id]) ELSE None

\* scores the oracle gives, in hundredths
Scores == {30, 90}

Hits == [case_id : IndexedIds, score : Scores]

\* a ranked answer of the oracle: distinct points, best score first
IsRanking(h) ==
    /\ \A i, j \in DOMAIN h : i < j => h[i].case_id # h[j].case_id
    /\ \A i, j \in DOMAIN h : i < j => h[i].score >= h[j].score

Rankings == UNION {{h \in [1..n -> Hits] : IsRanking(h)} : n \in 0..MaxHits}

(***************************************************************************)
(* The requests (SearchQuery, search.py lines 49-52).                      *)
(***************************************************************************)
HYBRID == "hybrid"
CORPUS_ONLY == "corpus_only"
\* mode is an unvalidated str: any other text is accepted too
OtherMode == "Hybrid"
Modes == {HYBRID, CORPUS_ONLY, OtherMode}

TextLaw == "law"
TextLaw2023 == "law 2023"
TextRoe == "Roe v. Wade"
TextRoeLoud == " ROE V. WADE "
TextAb == "Ab Co. v. Xy"
\* query is an unvalidated str: a blank text is accepted too
TextBlank == " "
\* a text with a case reference and a year
TextRoe1973 == "Roe v. Wade 1973"
Texts == {TextLaw, TextLaw2023, TextRoe, TextRoeLoud, TextAb, TextBlank, TextRoe1973}

\* limit is an unvalidated int: 0 is accepted too
Limits == {0, 1, 10}

Queries == [query : Texts, mode : Modes, limit : Limits]

\* answers the synthesis provider may give
Answers == {"answer A", "answer B"}

(***************************************************************************)
(* The response cache (cache_service.py).                                  *)
(***************************************************************************)
default_ttl == 3600

SearchPrefix == <<"s","e","a","r","c","h",":">>

\* normalized_query (line 36): query.lower().strip()
NormalizedQuery(query) == Strip(Lower(query))

\* _generate_cache_key did it not strip the query
CacheKeyNoStrip(query, mode) == SearchPrefix \o mode \o <<":">> \o Lower(query)

\* _generate_cache_key: f"search:{mode}:{normalized_query}", on characters
CacheKey(query, mode) == SearchPrefix \o mode \o <<":">> \o NormalizedQuery(query)

\* the key of every text and mode of the model, computed once
KeyTable == [tm \in Strings \X Strings |-> CacheKey(Chars[tm[1]], Chars[tm[2]])]

\* cache_key as the three methods below compute it
KeyOf(query, mode) == KeyTable[<<query, mode>>]

\* json.dumps of a response dict: the members in order, each source an array
DumpSource(s) ==
    <<s.case_name, s.citation, s.court, s.year, s.summary, s.relevance_score, s.url>>

Dumps(response) ==
    <<"answer", response.answer,
      "sources", [i \in DOMAIN response.sources |-> DumpSource(response.sources[i])],
      "mode", response.mode>>

LoadSource(a) ==
    [case_name |-> a[1], citation |-> a[2], court |-> a[3], year |-> a[4],
     summary |-> a[5], relevance_score |-> a[6], url |-> a[7]]

\* json.loads
Loads(data) ==
    [answer |-> data[2],
     sources |-> [i \in DOMAIN data[4] |-> LoadSource(data[4][i])],
     mode |-> data[6]]

\* the Redis store maps the keys it holds to [data, ttl]: the value and the
\* seconds it has left
EmptyStore == [k \in {} |-> 0]

\* get_cached_response did it look every query up under the hybrid mode
GetCachedResponseAnyMode(c, query, mode, up) ==
    IF ~up THEN None
    ELSE IF KeyOf(query, "hybrid") \in DOMAIN c
      THEN Some(Loads(c[KeyOf(query, "hybrid")].data))
      ELSE None

\* get_cached_response (lines 39-60) on store c; up: the backend answers
GetCachedResponse(c, query, mode, up) ==
    IF ~up THEN None
    ELSE IF KeyOf(query, mode) \in DOMAIN c
      THEN Some(Loads(c[KeyOf(query, mode)].data))
      ELSE None

\* client.setex(key, ttl, data)
SetEx(c, key, ttl, data) ==
    [k \in DOMAIN c \cup {key} |-> IF k = key THEN [data |-> data, ttl |-> ttl] ELSE c[k]]

\* cache_response did it store every entry under the default TTL
CacheResponseDefaultTtl(c, query, response, mode, ttl, up) ==
    IF ~up THEN c
    ELSE SetEx(c, KeyOf(query, mode), default_ttl, Dumps(response))

\* the store after cache_response (lines 62-94); ttl 0 stands for ttl=None
CacheResponse(c, query, response, mode, ttl, up) ==
    IF ~up THEN c
    ELSE SetEx(c, KeyOf(query, mode), IF ttl # 0 THEN ttl ELSE default_ttl, Dumps(response))

\* the store after invalidate_cache (lines 96-112)
InvalidateCache(c, query, mode, up) ==
    IF ~up THEN c ELSE [k \in DOMAIN c \ {KeyOf(query, mode)} |-> c[k]]

\* the store after clear_all_cache (lines 114-127): flushdb
ClearAllCache(c, up) == IF ~up THEN c ELSE EmptyStore

\* Redis expiry: the store after secs seconds have passed
Expire(c, secs) ==
    [k \in {x \in DOMAIN c : c[x].ttl > secs} |-> [c[k] EXCEPT !.ttl = @ - secs]]

(***************************************************************************)
(* The web search oracle (web_search_service.py).                          *)
(*                                                                         *)
(* A reply of the provider to one requests.post:                           *)
(*   kind "neterr": no reply (ConnectionError, Timeout);                   *)
(*   kind "ok":     status 200; body says what the payload is:             *)
(*       "dict"          a JSON object whose "results" is a list of n items*)
(*       "dict_noresults" a JSON object without "results"                  *)
(*       "dict_nullresults" a JSON object whose "results" is null          *)
(*       "list"          JSON, but an array and not an object              *)
(*       "text"          not JSON                                          *)
(*   kind "http":   an error status; body says what the error payload is:  *)
(*       "json_keyword"  a JSON object whose message names the plan/depth  *)
(*       "json_plain"    a JSON object with another message                *)
(*       "json_list"     JSON, but an array                                *)
(*       "text_keyword", "text_plain"  not JSON, with and without keyword  *)
(***************************************************************************)
OkBodies == {"dict_noresults", "dict_nullresults", "list", "text"}
ErrBodies == {"json_keyword", "json_plain", "json_list", "text_keyword", "text_plain"}
ErrStatuses == {400, 402, 403, 500}

WebReplies ==
    {[kind |-> "neterr", status |-> 0, body |-> "", n |-> 0]}
      \cup {[kind |-> "ok", status |-> 200, body |-> "dict", n |-> n] : n \in 0..MaxWeb}
      \cup {[kind |-> "ok", status |-> 200, body |-> b, n |-> 0] : b \in OkBodies}
      \cup {[kind |-> "http", status |-> st, body |-> b, n |-> 0] :
               st \in ErrStatuses, b \in ErrBodies}

NoReply == [kind |-> "none", status |-> 0, body |-> "", n |-> 0]

\* _should_retry_with_basic_depth (lines 120-136); "raise" when error_data.get
\* is called on a payload that is no object
ShouldRetryWithBasicDepth(reply) ==
    IF reply.status \notin {400, 402, 403} THEN "no"
    ELSE IF reply.body = "json_list" THEN "raise"
    ELSE IF reply.body \in {"json_keyword", "text_keyword"} THEN "yes"
    ELSE "no"

\* response.raise_for_status(); return response.json()   for one reply.
\* jsonErrIsRequestError: response.json() raises requests' JSONDecodeError (a
\* RequestException, requests 2.27 and later) and not a plain ValueError.
ReadReply(reply, jsonErrIsRequestError) ==
    IF reply.kind = "neterr" THEN [tag |-> "raise", exc |-> "RequestException", reply |-> reply]
    ELSE IF reply.kind = "http" THEN [tag |-> "raise", exc |-> "HTTPError", reply |-> reply]
    ELSE IF reply.body = "text"
      THEN [tag |-> "raise",
            exc |-> IF jsonErrIsRequestError THEN "RequestException" ELSE "ValueError",
            reply |-> reply]
    ELSE [tag |-> "data", exc |-> "", reply |-> reply]

WithPosts(r, n) == [tag |-> r.tag, exc |-> r.exc, reply |-> r.reply, posts |-> n]

\* _perform_search_with_fallback without the retry of lines 105-117
PerformSearchOnce(first, retry, jsonErrIsRequestError) ==
    LET r1 == ReadReply(first, jsonErrIsRequestError)
    IN  IF r1.exc # "HTTPError" THEN WithPosts(r1, 1)
        ELSE WithPosts([r1 EXCEPT !.exc = "RequestException"], 1)

\* _perform_search_with_fallback (lines 95-118): first is the reply to the
\* advanced request, retry the reply to the basic one, when it is sent
PerformSearchWithFallback(first, retry, jsonErrIsRequestError) ==
    LET r1 == ReadReply(first, jsonErrIsRequestError)
        r2 == ReadReply(retry, jsonErrIsRequestError)
        again == ShouldRetryWithBasicDepth(first)
    IN  IF r1.exc # "HTTPError" THEN WithPosts(r1, 1)
        ELSE IF again = "yes"
          \* an HTTPError of the retry leaves as it is: a RequestException
          THEN WithPosts([r2 EXCEPT !.exc = IF @ = "HTTPError" THEN "RequestException" ELSE @], 2)
        ELSE IF again = "raise"
          THEN WithPosts([r1 EXCEPT !.exc = "AttributeError"], 1)
        ELSE WithPosts([r1 EXCEPT !.exc = "RequestException"], 1)

\* one formatted result (lines 69-75)
WebItem(i) ==
    [title |-> "web title", url |-> "https://law.example/web", content |-> "web content",
     score |-> i, published_date |-> None]

EmptyWebResult(posts) ==
    [tag |-> "return", results |-> << >>, error |-> TRUE, posts |-> posts]

\* search_legal_content (lines 23-93): only a RequestException is caught
SearchLegalContent(key, first, retry, jsonErrIsRequestError) ==
    IF key = "" THEN EmptyWebResult(0)
    ELSE LET d == PerformSearchWithFallback(first, retry, jsonErrIsRequestError)
         IN  IF d.tag = "raise"
               THEN IF d.exc = "RequestException" THEN EmptyWebResult(d.posts)
                    ELSE [tag |-> "raise", results |-> << >>, error |-> TRUE, posts |-> d.posts]
             ELSE IF d.reply.body \in {"list", "dict_nullresults"}
               \* data.get on an array; iterating over None
               THEN [tag |-> "raise", results |-> << >>, error |-> TRUE, posts |-> d.posts]
             ELSE [tag |-> "return",
                   results |-> [i \in 1..d.reply.n |-> WebItem(i)],
                   error |-> FALSE, posts |-> d.posts]

\* the replies the basic request can get: none when it is not sent.  Of an
\* error reply to it nothing is read (line 116 raises), so one stands for all.
RetryReplies(first) ==
    IF first.kind = "http" /\ ShouldRetryWithBasicDepth(first) = "yes"
      THEN {w \in WebReplies : w.kind = "http" => (w.status = 500 /\ w.body = "json_plain")}
      ELSE {NoReply}

(***************************************************************************)
(* The state: the requests in flight, the Redis store, the configuration.  *)
(***************************************************************************)
VARIABLES
    rq,       \* rq[r]: the locals of request r of search_cases, and what it did
    cache,    \* the Redis store: key -> [data, ttl]
    api_key,  \* settings.SEARCH_API_KEY as WebSearchService read it
    served,   \* the number of requests received so far
    hist,     \* SpecCache only: what a client of the cache put and got
    probe     \* SpecKey, SpecCover, SpecAnswer: the arguments and results of one
              \* call; SpecIngest: the tables, the vector store, the last result

vars == <<rq, cache, api_key, served, hist, probe>>

\* the request slots
Reqs == {1}

NoQuery == [query |-> "", mode |-> "", limit |-> 0]

\* the locals of search_cases before the body runs
Fresh ==
    [pc |-> "idle", query |-> NoQuery, cached_response |-> None,
     vector_results |-> << >>, case_sources |-> << >>, web_result |-> None,
     web_sources |-> None, use_web_search |-> FALSE, trigger_reasons |-> << >>,
     context |-> << >>, answer |-> None, status |-> 0, returned |-> None,
     calls |-> << >>]

\* a call that left the process: ok is FALSE when it raised
Call(op, ok) == [op |-> op, ok |-> ok]

\* the request ends with an HTTP status and, on 200, a body
End(l, status, body) == [l EXCEPT !.pc = "done", !.status = status, !.returned = body]

\* the handler of lines 195-199: any exception but an HTTPException is a 500
InternalError(l) == End(l, 500, None)

NoHist == [put |-> EmptyStore, got |-> None]

NoProbe == << >>

Init ==
    /\ rq = [r \in Reqs |-> Fresh]
    /\ cache = EmptyStore
    /\ api_key \in {"", "tvly-key"}
    /\ served = 0
    /\ hist = NoHist
    /\ probe = NoProbe

\* a POST / arrives with a body q of qs
Receive(r, qs) ==
    /\ rq[r].pc = "idle"
    /\ served < MaxRequests
    /\ served' = served + 1
    /\ \E q \in qs :
          rq' = [rq EXCEPT ![r] = [Fresh EXCEPT !.pc = "cache_check", !.query = q]]
    /\ UNCHANGED <<probe, cache, api_key, hist>>

\* SearchResult(**source): the declared fields of a source
SearchResult(d) ==
    [case_name |-> d.case_name, citation |-> d.citation, court |-> d.court,
     year |-> d.year, summary |-> d.summary, relevance_score |-> d.relevance_score,
     url |-> d.url]

\* SearchResponse(**d): the declared fields of a response
SearchResponse(d) ==
    [answer |-> d.answer,
     sources |-> [i \in DOMAIN d.sources |-> SearchResult(d.sources[i])],
     mode |-> d.mode]

\* Step 1 had get_cached_response no try/except: a backend failure is a 500
DoCacheCheckUnguarded(l, c, up) ==
    LET got == GetCachedResponse(c, l.query.query, l.query.mode, up)
        l1 == [l EXCEPT !.cached_response = got,
                        !.calls = Append(@, Call("cache.get", up))]
    IN  IF ~up THEN InternalError(l1)
        ELSE IF got # None THEN End(l1, 200, Some(SearchResponse(got[1])))
        ELSE [l1 EXCEPT !.pc = "vector_search"]

\* Step 1 did the handler not return on a hit
DoCacheCheckNoReturn(l, c, up) ==
    [l EXCEPT !.cached_response = GetCachedResponse(c, l.query.query, l.query.mode, up),
              !.calls = Append(@, Call("cache.get", up)),
              !.pc = "vector_search"]

\* Step 1 (lines 84-88) on locals l and store c; up: the backend answers
DoCacheCheck(l, c, up) ==
    LET got == GetCachedResponse(c, l.query.query, l.query.mode, up)
        l1 == [l EXCEPT !.cached_response = got,
                        !.calls = Append(@, Call("cache.get", up))]
    IN  IF got # None THEN End(l1, 200, Some(SearchResponse(got[1])))
        ELSE [l1 EXCEPT !.pc = "vector_search"]

CacheCheck(r) ==
    /\ rq[r].pc = "cache_check"
    /\ \E up \in BOOLEAN : rq' = [rq EXCEPT ![r] = DoCacheCheck(rq[r], cache, up)]
    /\ UNCHANGED <<probe, cache, api_key, served, hist>>

\* Step 2 were an oracle failure taken for an empty list of hits
DoVectorSearchSwallowing(l, ok, h) ==
    [l EXCEPT !.calls = Append(@, Call("vector.search", ok)),
              !.vector_results = IF ok THEN h ELSE << >>,
              !.pc = "resolve"]

\* Step 2 (lines 90-95): the oracle raises (ok is FALSE) or returns the hits h
DoVectorSearch(l, ok, h) ==
    LET l1 == [l EXCEPT !.calls = Append(@, Call("vector.search", ok))]
    IN  IF ~ok THEN InternalError(l1)
        ELSE [l1 EXCEPT !.vector_results = h, !.pc = "resolve"]

\* the oracle returns at most limit ranked hits, a ranking of hs
VectorSearch(r, hs) ==
    /\ rq[r].pc = "vector_search"
    /\ \/ rq' = [rq EXCEPT ![r] = DoVectorSearch(rq[r], FALSE, << >>)]
       \/ \E h \in hs :
             /\ Len(h) <= rq[r].query.limit
             /\ rq' = [rq EXCEPT ![r] = DoVectorSearch(rq[r], TRUE, h)]
    /\ UNCHANGED <<probe, cache, api_key, served, hist>>

\* f"/api/v1/cases/{case.id}"
ApiCasePath(id) == <<"/api/v1/cases/1", "/api/v1/cases/2", "/api/v1/cases/3">>[id]

\* the dict appended for one resolved hit (lines 104-115)
CaseSource(case, hit) ==
    [case_id |-> case.id, case_name |-> case.case_name, citation |-> case.citation,
     court |-> case.court, year |-> case.year, facts |-> case.facts,
     holding |-> case.holding, reasoning |-> case.reasoning, score |-> hit.score,
     url |-> IF case.full_text_url # None THEN case.full_text_url[1]
             ELSE ApiCasePath(case.id)]

RECURSIVE ResolveFromPrepending(_, _)
\* the loop did it put each resolved hit in front of the list
ResolveFromPrepending(hits, i) ==
    IF i > Len(hits) THEN << >>
    ELSE LET hit == hits[i]
             case == QueryCase(hit.case_id)
         IN  ResolveFromPrepending(hits, i + 1)
               \o (IF hit.case_id # 0 /\ case # None
                     THEN <<CaseSource(case[1], hit)>> ELSE << >>)

RECURSIVE ResolveFrom(_, _)
\* the loop of lines 98-115 from hit i on: a hit without a truthy case_id or
\* without a row is skipped
ResolveFrom(hits, i) ==
    IF i > Len(hits) THEN << >>
    ELSE LET hit == hits[i]
             case == QueryCase(hit.case_id)
         IN  (IF hit.case_id # 0 /\ case # None
                THEN <<CaseSource(case[1], hit)>> ELSE << >>)
               \o ResolveFrom(hits, i + 1)

\* the hits the loop looks up in the corpus store
Lookups(hits) == {i \in DOMAIN hits : hits[i].case_id # 0}

\* Fetch full case data (lines 97-115).  failAt = 0: every lookup answers;
\* failAt = k: the k-th lookup raises
DoResolve(l, failAt) ==
    LET n == Cardinality(Lookups(l.vector_results))
    IN  IF failAt = 0
          THEN [l EXCEPT !.case_sources = ResolveFrom(l.vector_results, 1),
                         !.calls = @ \o [i \in 1..n |-> Call("db.query", TRUE)],
                         !.pc = "trigger"]
          ELSE InternalError(
                 [l EXCEPT !.calls = @ \o [i \in 1..failAt |-> Call("db.query", i < failAt)]])

ResolveEvidence(r) ==
    /\ rq[r].pc = "resolve"
    /\ \E failAt \in 0..Cardinality(Lookups(rq[r].vector_results)) :
          rq' = [rq EXCEPT ![r] = DoResolve(rq[r], failAt)]
    /\ UNCHANGED <<probe, cache, api_key, served, hist>>

RECURSIVE SeqMax(_)
\* max of a non-empty sequence of numbers
SeqMax(s) ==
    IF Len(s) = 1 THEN s[1]
    ELSE LET m == SeqMax(Tail(s)) IN IF s[1] >= m THEN s[1] ELSE m

RECURSIVE SeqSum(_)
SeqSum(s) == IF s = << >> THEN 0 ELSE s[1] + SeqSum(Tail(s))

\* requested_year (line 121)
RequestedYear(text) ==
    LET query_years == YearsOf[text]
    IN  IF query_years # << >> THEN Some(SeqMax(query_years)) ELSE None

\* latest_case_year (line 122)
LatestCaseYear(case_sources) ==
    IF case_sources # << >>
      THEN SeqMax([i \in DOMAIN case_sources |-> case_sources[i].year])
      ELSE 0

\* recency_gap did line 123 compare with >=
RecencyGapAtLeast(text, case_sources) ==
    LET requested_year == RequestedYear(text)
    IN  /\ requested_year # None
        /\ requested_year[1] # 0
        /\ requested_year[1] >= LatestCaseYear(case_sources)

\* recency_gap (line 123): requested_year and requested_year > latest_case_year
RecencyGap(text, case_sources) ==
    LET requested_year == RequestedYear(text)
    IN  /\ requested_year # None
        /\ requested_year[1] # 0
        /\ requested_year[1] > LatestCaseYear(case_sources)

\* case_reference_in_sources of the reference of every text against every
\* record of the corpus, computed once
CoversOf ==
    [t \in Strings |->
        [id \in DOMAIN CaseTable |->
            /\ ReferenceOf[t] # None
            /\ case_reference_in_sources(ReferenceOf[t][1], <<CaseTable[id]>>)]]

\* reference_found (line 125); case_reference_in_sources returns True when one
\* source covers the reference, and a source carries the names of its record
ReferenceFound(text, case_sources) ==
    LET case_reference == ReferenceOf[text]
    IN  /\ case_reference # None
        /\ case_reference[1] # << >>
        /\ \E k \in DOMAIN case_sources : CoversOf[text][case_sources[k].case_id]

\* sum of the scores (line 129), in hundredths
ScoreSum(case_sources) == SeqSum([i \in DOMAIN case_sources |-> case_sources[i].score])

\* low confidence did line 134 read avg_score <= 0.5
LowConfidenceAtMost(case_sources) ==
    IF case_sources # << >> THEN ScoreSum(case_sources) <= 50 * Len(case_sources) ELSE TRUE

\* avg_score < 0.5 (line 134): avg_score is sum / len, and 0 without sources
LowConfidence(case_sources) ==
    IF case_sources # << >> THEN ScoreSum(case_sources) < 50 * Len(case_sources) ELSE TRUE

\* avg_score as {avg_score:.2f} prints it, in hundredths
AvgShown(case_sources) ==
    IF case_sources # << >>
      THEN (2 * ScoreSum(case_sources) + Len(case_sources)) \div (2 * Len(case_sources))
      ELSE 0

\* trigger_reasons did the tests stop at the first that holds
TriggerReasonsFirstOnly(text, case_sources) ==
    LET case_reference == ReferenceOf[text]
    IN  IF LowConfidence(case_sources)
          THEN <<[kind |-> "Low confidence", avg |-> AvgShown(case_sources)]>>
        ELSE IF Len(case_sources) < 2
          THEN <<[kind |-> "Fewer than 2 corpus matches"]>>
        ELSE IF RecencyGap(text, case_sources)
          THEN <<[kind |-> "Query references year",
                  requested |-> RequestedYear(text)[1],
                  latest |-> LatestCaseYear(case_sources)]>>
        ELSE IF /\ case_reference # None
                /\ case_reference[1] # << >>
                /\ ~ReferenceFound(text, case_sources)
          THEN <<[kind |-> "Case missing from corpus", reference |-> case_reference[1]]>>
        ELSE << >>

\* trigger_reasons without the test of lines 136-137
TriggerReasonsNoSparse(text, case_sources) ==
    LET case_reference == ReferenceOf[text]
    IN  (IF LowConfidence(case_sources)
           THEN <<[kind |-> "Low confidence", avg |-> AvgShown(case_sources)]>>
           ELSE << >>)
        \o (IF RecencyGap(text, case_sources)
           THEN <<[kind |-> "Query references year",
                   requested |-> RequestedYear(text)[1],
                   latest |-> LatestCaseYear(case_sources)]>>
           ELSE << >>)
        \o (IF /\ case_reference # None
               /\ case_reference[1] # << >>
               /\ ~ReferenceFound(text, case_sources)
           THEN <<[kind |-> "Case missing from corpus", reference |-> case_reference[1]]>>
           ELSE << >>)

\* trigger_reasons as lines 133-141 build it
TriggerReasons(text, case_sources) ==
    LET case_reference == ReferenceOf[text]
    IN  (IF LowConfidence(case_sources)
           THEN <<[kind |-> "Low confidence", avg |-> AvgShown(case_sources)]>>
           ELSE << >>)
        \o (IF Len(case_sources) < 2
           THEN <<[kind |-> "Fewer than 2 corpus matches"]>> ELSE << >>)
        \o (IF RecencyGap(text, case_sources)
           THEN <<[kind |-> "Query references year",
                   requested |-> RequestedYear(text)[1],
                   latest |-> LatestCaseYear(case_sources)]>>
           ELSE << >>)
        \o (IF /\ case_reference # None
               /\ case_reference[1] # << >>
               /\ ~ReferenceFound(text, case_sources)
           THEN <<[kind |-> "Case missing from corpus", reference |-> case_reference[1]]>>
           ELSE << >>)

\* Step 3 without the test of the mode at line 127
DoTriggerAnyMode(l) ==
    LET reasons == TriggerReasons(l.query.query, l.case_sources)
    IN  IF reasons # << >>
          THEN [l EXCEPT !.trigger_reasons = reasons,
                         !.use_web_search = TRUE,
                         !.pc = "web_search"]
          ELSE [l EXCEPT !.pc = "synthesize"]

\* Step 3 up to the decision (lines 117-145, 148-149)
DoTrigger(l) ==
    LET reasons == TriggerReasons(l.query.query, l.case_sources)
    IN  IF l.query.mode = HYBRID /\ reasons # << >>
          THEN [l EXCEPT !.trigger_reasons = reasons,
                         !.use_web_search = TRUE,
                         !.pc = "web_search"]
          ELSE [l EXCEPT !.pc = "synthesize"]

EvaluateTrigger(r) ==
    /\ rq[r].pc = "trigger"
    /\ rq' = [rq EXCEPT ![r] = DoTrigger(rq[r])]
    /\ UNCHANGED <<probe, cache, api_key, served, hist>>

\* max_results=5 of the call at line 146
RequestedWebResults == 5

\* the cap of line 113
BasicMaxResults == 3

\* payload (web_search_service.py, lines 55-62)
AdvancedPayload(max_results) ==
    [search_depth |-> "advanced", max_results |-> max_results,
     include_answer |-> Some(TRUE)]

\* basic_payload (lines 108-113)
BasicPayload(payload) ==
    [payload EXCEPT !.search_depth = "basic",
                    !.include_answer = None,
                    !.max_results = IF @ < BasicMaxResults THEN @ ELSE BasicMaxResults]

\* requests.post(api_url, json=payload) and the reply it got
Post(payload, reply) ==
    [op |-> "http.post", ok |-> reply.kind = "ok", payload |-> payload,
     status |-> reply.status, body |-> reply.body]

\* the HTTP requests a call of search_legal_content sent
Posts(first, retry, n) ==
    IF n = 0 THEN << >>
    ELSE IF n = 1 THEN <<Post(AdvancedPayload(RequestedWebResults), first)>>
    ELSE <<Post(AdvancedPayload(RequestedWebResults), first),
           Post(BasicPayload(AdvancedPayload(RequestedWebResults)), retry)>>

\* Step 3, the web call (lines 146-147); res is what search_legal_content did
DoWebSearch(l, res, posts) ==
    LET l1 == [l EXCEPT !.calls = Append(@, Call("web.search", res.tag = "return")) \o posts]
    IN  IF res.tag = "raise" THEN InternalError(l1)
        ELSE [l1 EXCEPT !.web_result = Some([results |-> res.results, error |-> res.error]),
                        !.web_sources = Some(res.results),
                        !.pc = "synthesize"]

WebSearch(r) ==
    /\ rq[r].pc = "web_search"
    /\ \E first \in WebReplies, jsonErrIsRequestError \in BOOLEAN :
          \E retry \in RetryReplies(first) :
             LET res == SearchLegalContent(api_key, first, retry, jsonErrIsRequestError)
             IN  rq' = [rq EXCEPT ![r] =
                          DoWebSearch(rq[r], res, Posts(first, retry, res.posts))]
    /\ UNCHANGED <<probe, cache, api_key, served, hist>>

\* not web_sources: None and the empty list are both falsy
NoWebSources(web_sources) == web_sources = None \/ web_sources[1] = << >>

\* the test of line 152 did it read "web_sources is None"
NoEvidenceUnlessFetched(l) == l.case_sources = << >> /\ l.web_sources = None

\* the test of line 152
NoEvidence(l) == l.case_sources = << >> /\ NoWebSources(l.web_sources)

\* the web_sources argument of line 161
PassedWebSources(l) == IF l.use_web_search THEN l.web_sources ELSE None

\* context_parts did it open the web section whatever web_sources holds
ContextWithWebSection(case_sources, web_sources) ==
    <<[part |-> "RELEVANT CASE LAW:"]>>
      \o [i \in DOMAIN case_sources |->
            [part |-> "case", idx |-> i,
             case_name |-> case_sources[i].case_name,
             citation |-> case_sources[i].citation,
             court |-> case_sources[i].court, year |-> case_sources[i].year,
             holding |-> case_sources[i].holding, facts |-> case_sources[i].facts,
             reasoning |-> case_sources[i].reasoning]]
      \o <<[part |-> "ADDITIONAL WEB SOURCES:"]>>
      \o (IF web_sources # None
            THEN [i \in DOMAIN web_sources[1] |->
                    [part |-> "web", idx |-> i, title |-> web_sources[1][i].title,
                     url |-> web_sources[1][i].url,
                     content |-> web_sources[1][i].content]]
            ELSE << >>)

\* context_parts (llm_service.py, lines 94-130): the header, one part for
\* each case and, if web_sources is neither None nor empty, the web header
\* and one part for each web source; the texts of the model are shorter than
\* the cuts at 500 and 800 characters
Context(case_sources, web_sources) ==
    <<[part |-> "RELEVANT CASE LAW:"]>>
      \o [i \in DOMAIN case_sources |->
            [part |-> "case", idx |-> i,
             case_name |-> case_sources[i].case_name,
             citation |-> case_sources[i].citation,
             court |-> case_sources[i].court, year |-> case_sources[i].year,
             holding |-> case_sources[i].holding, facts |-> case_sources[i].facts,
             reasoning |-> case_sources[i].reasoning]]
      \o (IF ~NoWebSources(web_sources)
            THEN <<[part |-> "ADDITIONAL WEB SOURCES:"]>>
                   \o [i \in DOMAIN web_sources[1] |->
                         [part |-> "web", idx |-> i, title |-> web_sources[1][i].title,
                          url |-> web_sources[1][i].url,
                          content |-> web_sources[1][i].content]]
            ELSE << >>)

\* Step 4 did it call the provider again after a failure
DoSynthesizeRetrying(l, out) ==
    IF NoEvidence(l) THEN End(l, 404, None)
    ELSE IF out = None
      THEN [l EXCEPT !.calls = Append(@, Call("llm.create", FALSE)),
          !.context = Context(l.case_sources, PassedWebSources(l))]
    ELSE [l EXCEPT !.calls = Append(@, Call("llm.create", TRUE)),
          !.context = Context(l.case_sources, PassedWebSources(l)),
                   !.answer = out,
                   !.pc = "respond"]

\* Step 4 without the test of lines 152-156
DoSynthesizeUnchecked(l, out) ==
    IF out = None
      THEN InternalError([l EXCEPT !.calls = Append(@, Call("llm.create", FALSE)),
          !.context = Context(l.case_sources, PassedWebSources(l))])
    ELSE [l EXCEPT !.calls = Append(@, Call("llm.create", TRUE)),
          !.context = Context(l.case_sources, PassedWebSources(l)),
                   !.answer = out,
                   !.pc = "respond"]

\* Step 4 without the clause "except HTTPException: raise" of lines 193-194
DoSynthesizeNoReraise(l, out) ==
    IF NoEvidence(l) THEN InternalError(l)
    ELSE IF out = None
      THEN InternalError([l EXCEPT !.calls = Append(@, Call("llm.create", FALSE)),
          !.context = Context(l.case_sources, PassedWebSources(l))])
    ELSE [l EXCEPT !.calls = Append(@, Call("llm.create", TRUE)),
          !.context = Context(l.case_sources, PassedWebSources(l)),
                   !.answer = out,
                   !.pc = "respond"]

\* Step 4 were a failed synthesis answered with a fixed text
DoSynthesizeFallback(l, out) ==
    IF NoEvidence(l) THEN End(l, 404, None)
    ELSE [l EXCEPT !.calls = Append(@, Call("llm.create", out # None)),
          !.context = Context(l.case_sources, PassedWebSources(l)),
                   !.answer = IF out # None THEN out ELSE Some("answer A"),
                   !.pc = "respond"]

\* Step 4 (lines 151-164): the 404 test, then the synthesis call, which
\* returns the answer out = Some(text) or raises (out = None)
DoSynthesize(l, out) ==
    IF NoEvidence(l) THEN End(l, 404, None)
    ELSE IF out = None
      THEN InternalError([l EXCEPT !.calls = Append(@, Call("llm.create", FALSE)),
          !.context = Context(l.case_sources, PassedWebSources(l))])
    ELSE [l EXCEPT !.calls = Append(@, Call("llm.create", TRUE)),
          !.context = Context(l.case_sources, PassedWebSources(l)),
                   !.answer = out,
                   !.pc = "respond"]

Synthesize(r) ==
    /\ rq[r].pc = "synthesize"
    /\ \E out \in {None} \cup {Some(a) : a \in Answers} :
          rq' = [rq EXCEPT ![r] = DoSynthesize(rq[r], out)]
    /\ UNCHANGED <<probe, cache, api_key, served, hist>>

SummaryLen == 200

SummaryNotAvailable ==
    <<"S","u","m","m","a","r","y"," ","n","o","t"," ","a","v","a","i","l","a","b","l","e">>

\* one entry of sources (lines 170-180)
FormatSource(case) ==
    [case_name |-> case.case_name, citation |-> case.citation, court |-> case.court,
     year |-> case.year,
     summary |-> IF case.holding # None /\ case.holding[1] # << >>
                   THEN Slice(case.holding[1], 1,
                              IF Len(case.holding[1]) < SummaryLen
                                THEN Len(case.holding[1]) ELSE SummaryLen)
                   ELSE SummaryNotAvailable,
     relevance_score |-> case.score, url |-> case.url]

\* response_data did the loop of line 168 put each entry in front of the list
ResponseDataPrepending(answer, case_sources, mode) ==
    [answer |-> answer,
     sources |-> [i \in DOMAIN case_sources |->
                     FormatSource(case_sources[Len(case_sources) + 1 - i])],
     mode |-> mode]

\* response_data (lines 166-186)
ResponseData(answer, case_sources, mode) ==
    [answer |-> answer,
     sources |-> [i \in DOMAIN case_sources |-> FormatSource(case_sources[i])],
     mode |-> mode]

\* Steps 5 and 6 (lines 166-191), the locals: format, cache, return
DoRespond(l, up) ==
    End([l EXCEPT !.calls = Append(@, Call("cache.setex", up))],
        200, Some(SearchResponse(ResponseData(l.answer[1], l.case_sources, l.query.mode))))

\* Step 6 did it empty the store before the write
StoreAfterRespondFlushing(c, l, up) ==
    CacheResponse(ClearAllCache(c, up), l.query.query,
                  ResponseData(l.answer[1], l.case_sources, l.query.mode),
                  l.query.mode, 0, up)

\* Step 6 did it pass the response under a TTL of its own
StoreAfterRespondShortTtl(c, l, up) ==
    CacheResponse(c, l.query.query,
                  ResponseData(l.answer[1], l.case_sources, l.query.mode),
                  l.query.mode, TickSeconds, up)

\* Step 6 did it skip the write after a web search that gave an error
StoreAfterRespondUnlessDegraded(c, l, up) ==
    IF l.web_result # None /\ l.web_result[1].error THEN c
    ELSE CacheResponse(c, l.query.query,
                       ResponseData(l.answer[1], l.case_sources, l.query.mode),
                       l.query.mode, 0, up)

\* Step 6 (line 189), the store
StoreAfterRespond(c, l, up) ==
    CacheResponse(c, l.query.query,
                  ResponseData(l.answer[1], l.case_sources, l.query.mode),
                  l.query.mode, 0, up)

Respond(r) ==
    /\ rq[r].pc = "respond"
    /\ \E up \in BOOLEAN :
          /\ cache' = StoreAfterRespond(cache, rq[r], up)
          /\ rq' = [rq EXCEPT ![r] = DoRespond(rq[r], up)]
    /\ UNCHANGED <<probe, api_key, served, hist>>

Hit(id, score) == [case_id |-> id, score |-> score]

\* the requests and the rankings of Spec, which serves requests one after the
\* other against one store
FewQueries ==
    {[query |-> TextRoe, mode |-> HYBRID, limit |-> 10],
     [query |-> TextRoeLoud, mode |-> HYBRID, limit |-> 10],
     [query |-> TextRoe, mode |-> CORPUS_ONLY, limit |-> 10]}

FewRankings ==
    {<< >>, <<Hit(1, 90)>>, <<Hit(1, 90), Hit(4, 90), Hit(3, 30)>>}

\* The ledger of a client of the cache service.  hist.put[<<query, mode>>] is
\* the response the client last stored under that query and mode, with the
\* seconds of its TTL that remain, kept while no other write and no
\* invalidation touched its key; hist.got is the client's last lookup.

\* the ledger without the entries stored under the key of query and mode
Forgotten(put, query, mode) ==
    [qm \in {x \in DOMAIN put : KeyOf(x[1], x[2]) # KeyOf(query, mode)} |-> put[qm]]

\* the ledger after secs seconds
Aged(put, secs) ==
    [qm \in DOMAIN put |->
        [put[qm] EXCEPT !.left = IF @ > secs THEN @ - secs ELSE 0]]

\* the ttl arguments of cache_response: 0 stands for ttl=None
Ttls == {0, TickSeconds}

\* the response dicts a client stores: without sources, and with two
Responses ==
    {ResponseData("answer A", << >>, HYBRID),
     ResponseData("answer B", ResolveFrom(<<Hit(1, 90), Hit(2, 30)>>, 1), CORPUS_ONLY)}

\* a client calls cache_response(query, response, mode, ttl) for a request of qs
CachePut(qs) ==
    /\ \E q \in qs, response \in Responses, ttl \in Ttls, up \in BOOLEAN :
          LET qm == <<q.query, q.mode>>
              rest == Forgotten(hist.put, q.query, q.mode)
              entry == [response |-> response,
                        left |-> IF ttl = 0 THEN default_ttl ELSE ttl]
          IN  /\ cache' = CacheResponse(cache, q.query, response, q.mode, ttl, up)
              /\ hist' = IF ~up THEN hist
                         ELSE [hist EXCEPT !.put =
                                 [x \in DOMAIN rest \cup {qm} |->
                                     IF x = qm THEN entry ELSE rest[x]]]
    /\ UNCHANGED <<probe, rq, api_key, served>>

\* a client calls get_cached_response(query, mode) for a request of qs
CacheGet(qs) ==
    /\ \E q \in qs, up \in BOOLEAN :
          hist' = [hist EXCEPT !.got =
                     Some([query |-> q.query, mode |-> q.mode, up |-> up,
                           result |-> GetCachedResponse(cache, q.query, q.mode, up),
                           expect |-> IF <<q.query, q.mode>> \in DOMAIN hist.put
                                        THEN Some(hist.put[<<q.query, q.mode>>])
                                        ELSE None])]
    /\ UNCHANGED <<probe, rq, cache, api_key, served>>

\* the response is sent; the locals of the request are discarded
Finish(r) ==
    /\ rq[r].pc = "done"
    /\ rq' = [rq EXCEPT ![r] = Fresh]
    /\ UNCHANGED <<probe, cache, api_key, served, hist>>

\* time passes: Redis drops the entries whose TTL has run out
Tick ==
    /\ cache # EmptyStore
    /\ cache' = Expire(cache, TickSeconds)
    /\ hist' = [hist EXCEPT !.put = Aged(@, TickSeconds)]
    /\ UNCHANGED <<probe, rq, api_key, served>>

\* an administrator calls invalidate_cache(query, mode) for a request of qs
Invalidate(qs) ==
    /\ cache # EmptyStore
    /\ \E q \in qs, up \in BOOLEAN :
          /\ cache' = InvalidateCache(cache, q.query, q.mode, up)
          /\ hist' = IF up THEN [hist EXCEPT !.put = Forgotten(@, q.query, q.mode)]
                          ELSE hist
    /\ UNCHANGED <<probe, rq, api_key, served>>

\* an administrator calls clear_all_cache()
ClearAll ==
    /\ cache # EmptyStore
    /\ \E up \in BOOLEAN :
          /\ cache' = ClearAllCache(cache, up)
          /\ hist' = IF up THEN [hist EXCEPT !.put = EmptyStore] ELSE hist
    /\ UNCHANGED <<probe, rq, api_key, served>>

\* one step of request r, its body drawn from qs and the oracle's ranking from hs
Step(r, qs, hs) ==
    \/ Receive(r, qs)
    \/ CacheCheck(r)
    \/ VectorSearch(r, hs)
    \/ ResolveEvidence(r)
    \/ EvaluateTrigger(r)
    \/ WebSearch(r)
    \/ Synthesize(r)
    \/ Respond(r)

\* the service: requests one after the other, the clock, the administrator
Next ==
    \/ \E r \in Reqs : Step(r, FewQueries, FewRankings)
    \/ \E r \in Reqs : Finish(r)
    \/ Tick
    \/ Invalidate(FewQueries)
    \/ ClearAll

Spec == Init /\ [][Next]_vars

\* one request against an empty store, any body and any ranking
NextPipeline == \E r \in Reqs : Step(r, Queries, Rankings)

SpecPipeline == Init /\ [][NextPipeline]_vars

\* the cache service under a client that stores, looks up and invalidates
\* while time passes
NextCache ==
    \/ CachePut(FewQueries)
    \/ CacheGet(FewQueries)
    \/ Tick
    \/ Invalidate(FewQueries)
    \/ ClearAll

SpecCache == Init /\ [][NextCache]_vars

\* what the oracle returns in SpecConcurrent: nothing, or two strong hits
PairRankings == {<< >>, <<Hit(1, 90), Hit(3, 90)>>}

\* two bodies the endpoint accepts, the colon once in the mode and once in
\* the text
ColonQueries ==
    {[query |-> "law", mode |-> "hybrid:", limit |-> 10],
     [query |-> ":law", mode |-> HYBRID, limit |-> 10]}

\* the service under those two bodies, one request after the other
NextColon ==
    \/ \E r \in Reqs : Step(r, ColonQueries, PairRankings)
    \/ \E r \in Reqs : Finish(r)

SpecColon == Init /\ [][NextColon]_vars

\* score_threshold of line 94, in hundredths
score_threshold == 50

\* answers of an oracle that returns no point scored under score_threshold
HonouredRankings ==
    {<< >>, <<Hit(4, score_threshold)>>, <<Hit(1, score_threshold)>>,
     <<Hit(1, 90), Hit(2, score_threshold)>>,
     <<Hit(1, score_threshold), Hit(3, score_threshold)>>,
     <<Hit(4, 90), Hit(1, score_threshold)>>}

\* one request against an empty store and such an oracle
NextHonoured ==
    \E r \in Reqs :
       Step(r, {q \in Queries : q.limit = 10 /\ q.query \in {TextLaw, TextLaw2023}},
            HonouredRankings)

SpecHonoured == Init /\ [][NextHonoured]_vars

\* the requests in flight at once in SpecConcurrent
Clients == {1, 2}

\* two idle workers, an empty store, and a key for the web search
InitRepeat ==
    /\ rq = [r \in Clients |-> Fresh]
    /\ cache = EmptyStore
    /\ api_key = "tvly-key"
    /\ served = 0
    /\ hist = NoHist
    /\ probe = NoProbe

\* a hybrid request is served, then the same body is sent again, while time
\* passes
NextRepeat ==
    \/ Step(1, {[query |-> TextRoe, mode |-> HYBRID, limit |-> 10]}, {<<Hit(1, 90)>>})
    \/ rq[1].pc = "done" /\ Step(2, {rq[1].query}, {<<Hit(1, 90)>>})
    \/ Tick

SpecRepeat == InitRepeat /\ [][NextRepeat]_vars

\* two idle workers, an empty store, and no key for the web search
InitConcurrent ==
    /\ rq = [r \in Clients |-> Fresh]
    /\ cache = EmptyStore
    /\ api_key = ""
    /\ served = 0
    /\ hist = NoHist
    /\ probe = NoProbe

\* two requests, each served by a worker of its own, their calls interleaved
\* in any order against the one store, while time passes
NextConcurrent ==
    \/ \E r \in Clients : Step(r, FewQueries, PairRankings)
    \/ Tick

SpecConcurrent == InitConcurrent /\ [][NextConcurrent]_vars

\* the characters and the texts of SpecKey
KeyAlphabet == {"A", "a", " ", "."}

KeyTexts == UNION {[1..n -> KeyAlphabet] : n \in 0..MaxLen}

\* a caller holds two query texts
InitKey ==
    /\ rq = [r \in Reqs |-> Fresh]
    /\ cache = EmptyStore
    /\ api_key = ""
    /\ served = 0
    /\ hist = NoHist
    /\ probe \in [a : KeyTexts, b : KeyTexts, mode : {""},
                  key_a : {None}, key_b : {None}, key_again : {None}]

\* _generate_cache_key(a, mode), _generate_cache_key(b, mode), and the key of
\* the normalized a
GenerateKeys ==
    /\ probe # NoProbe
    /\ probe.key_a = None
    /\ \E mode \in {HYBRID, CORPUS_ONLY} :
          probe' = [probe EXCEPT
                      !.mode = mode,
                      !.key_a = Some(CacheKey(probe.a, Chars[mode])),
                      !.key_b = Some(CacheKey(probe.b, Chars[mode])),
                      !.key_again = Some(CacheKey(NormalizedQuery(probe.a), Chars[mode]))]
    /\ UNCHANGED <<rq, cache, api_key, served, hist>>

\* key generation on its own, over every pair of short texts
NextKey == GenerateKeys

SpecKey == InitKey /\ [][NextKey]_vars

\* citations_used did line 153 look for the citation alone
CitationsUsedByCitation(case_sources, answer) ==
    LET Cited(case) ==
           /\ case.citation # ""
           /\ IsSubstr(Chars[case.citation], Chars[answer])
        used == SelectSeq(case_sources, Cited)
    IN  [k \in DOMAIN used |->
           [case_name |-> used[k].case_name, citation |-> used[k].citation,
            case_id |-> used[k].case_id]]

\* citations_used (llm_service.py, lines 149-158)
CitationsUsed(case_sources, answer) ==
    LET Cited(case) ==
           /\ case.citation # ""
           /\ \/ IsSubstr(Chars[case.citation], Chars[answer])
              \/ IsSubstr(Chars[case.case_name], Chars[answer])
        used == SelectSeq(case_sources, Cited)
    IN  [k \in DOMAIN used |->
           [case_name |-> used[k].case_name, citation |-> used[k].citation,
            case_id |-> used[k].case_id]]

\* texts the provider answers with
AnswerTexts == {"Roe v. Wade 1973", "410 U.S. 113", "In re Doe", " ROE V. WADE ", "law"}

\* case_sources items a caller passes: three as search_cases builds them and
\* one without citation
EvidenceItems ==
    {CaseSource(CaseTable[id], [case_id |-> id, score |-> 90]) : id \in DOMAIN CaseTable}
      \cup {[CaseSource(CaseTable[3], [case_id |-> 3, score |-> 90]) EXCEPT !.citation = ""]}

\* a caller holds the case_sources argument
InitAnswer ==
    /\ rq = [r \in Reqs |-> Fresh]
    /\ cache = EmptyStore
    /\ api_key = ""
    /\ served = 0
    /\ hist = NoHist
    /\ probe \in [case_sources : UNION {[1..n -> EvidenceItems] : n \in 0..MaxHits},
                  outcome : {"pending"}, answer : {""}, citations_used : {<< >>}]

\* generate_legal_answer from the reply of the provider on (lines 139-169):
\* the provider raises, or answers with a text
GenerateLegalAnswer ==
    /\ probe # NoProbe
    /\ probe.outcome = "pending"
    /\ \/ probe' = [probe EXCEPT !.outcome = "raise"]
       \/ \E answer \in AnswerTexts :
             probe' = [probe EXCEPT
                         !.outcome = "return",
                         !.answer = answer,
                         !.citations_used = CitationsUsed(probe.case_sources, answer)]
    /\ UNCHANGED <<rq, cache, api_key, served, hist>>

\* the synthesis call on its own, over short lists of evidence
SpecAnswer == InitAnswer /\ [][GenerateLegalAnswer]_vars

(***************************************************************************)
(* Ingestion (courtlistener_service.py, lines 225-317).  In SpecIngest      *)
(* probe holds cases, the rows of table cases in the order of their ids;    *)
(* points, the ids of the points of the vector store; tracked, the case_id  *)
(* of the rows of table case_embeddings; returned, what the last call of    *)
(* ingest_case returned.                                                    *)
(***************************************************************************)
\* add_case_embedding (vector_search_service.py, lines 47-88): the point's
\* id is the case id; the upsert raises when ok is FALSE
AddCaseEmbedding(points, case_id, ok) ==
    IF ok THEN [tag |-> "return", points |-> points \cup {case_id}, vector_id |-> case_id]
    ELSE [tag |-> "raise", points |-> points, vector_id |-> 0]

\* ingest_case on the data parse_case_data gave (year 0: None; full_text: is
\* there any); fail names the call that raises, if one does.  A commit ends
\* the transaction: the rollback of line 316 undoes only what was added
\* after the last commit.
DoIngestCase(p, case_data, fail) ==
    LET citation == IF case_data.citation # "" THEN case_data.citation
                    ELSE case_data.case_name
        existing == {i \in DOMAIN p.cases : p.cases[i].citation = citation}
        id == Len(p.cases) + 1
        row == [id |-> id, citation |-> citation, case_name |-> case_data.case_name,
                year |-> case_data.year]
        added == [p EXCEPT !.cases = Append(@, row)]
        upsert == AddCaseEmbedding(p.points, id, fail # "upsert")
    IN  IF fail = "parse" THEN [p EXCEPT !.returned = None]
        ELSE IF citation = "" THEN [p EXCEPT !.returned = None]
        ELSE IF ~case_data.full_text THEN [p EXCEPT !.returned = None]
        ELSE IF existing # {}
          THEN [p EXCEPT !.returned = Some(CHOOSE i \in existing : TRUE)]
        \* line 279: the commit raises by itself when year is None (nullable=False)
        ELSE IF fail = "commit" \/ case_data.year = 0 THEN [p EXCEPT !.returned = None]
        ELSE IF fail = "embed" THEN [added EXCEPT !.returned = None]
        ELSE IF upsert.tag = "raise" THEN [added EXCEPT !.returned = None]
        ELSE IF fail = "track"
          THEN [added EXCEPT !.points = upsert.points, !.returned = None]
        ELSE [added EXCEPT !.points = upsert.points,
                           !.tracked = @ \cup {upsert.vector_id},
                           !.returned = Some(id)]

\* empty tables and an empty vector store
InitIngest ==
    /\ rq = [r \in Reqs |-> Fresh]
    /\ cache = EmptyStore
    /\ api_key = ""
    /\ served = 0
    /\ hist = NoHist
    /\ probe = [cases |-> << >>, points |-> {}, tracked |-> {}, returned |-> None]

\* a caller ingests one opinion: three cases with citation, one with a name
\* only and no date, one without name and citation, one without text
IngestCase ==
    /\ \E case_data \in
            {[case_name |-> CaseTable[id].case_name, citation |-> CaseTable[id].citation,
              year |-> CaseTable[id].year, full_text |-> TRUE] : id \in DOMAIN CaseTable}
            \cup {[case_name |-> "In re Doe", citation |-> "", year |-> 0, full_text |-> TRUE],
                  [case_name |-> "", citation |-> "", year |-> 0, full_text |-> TRUE],
                  [case_name |-> "Roe v. Wade", citation |-> "410 U.S. 113",
                   year |-> 1973, full_text |-> FALSE]},
          fail \in {"none", "parse", "commit", "embed", "upsert", "track"} :
          probe' = DoIngestCase(probe, case_data, fail)
    /\ UNCHANGED <<rq, cache, api_key, served, hist>>

SpecIngest == InitIngest /\ [][IngestCase]_vars

\* references a caller asks about
CoverReferences ==
    {"Smith Co. v. Jones", "Ab Co. v. Xy", " ROE V. WADE ", "410 U.S. 113", "law", ""}

\* the name and the citation of sources a caller holds
CoverSources ==
    {[case_name |-> "Smith Company v. Jones Corp.", citation |-> "1 F. 2"],
     [case_name |-> "Smith Co. v. Brown", citation |-> "2 F. 3"],
     [case_name |-> "Roe v. Wade", citation |-> "410 U.S. 113"],
     [case_name |-> "Ab Company v. Xy Corp.", citation |-> "1 F. 2"],
     [case_name |-> "In re Doe", citation |-> "2 F. 3"]}

\* a caller holds a reference and a list of sources
InitCover ==
    /\ rq = [r \in Reqs |-> Fresh]
    /\ cache = EmptyStore
    /\ api_key = ""
    /\ served = 0
    /\ hist = NoHist
    /\ probe \in [reference : CoverReferences,
                  sources : UNION {[1..n -> CoverSources] : n \in 0..MaxHits},
                  covered : {None}, reversed : {None}]

\* case_reference_in_sources(reference, sources), and the same over the list
\* in reverse
CheckCoverage ==
    /\ probe # NoProbe
    /\ probe.covered = None
    /\ LET n == Len(probe.sources)
           back == [i \in 1..n |-> probe.sources[n + 1 - i]]
       IN  probe' = [probe EXCEPT
                       !.covered = Some(case_reference_in_sources(
                                           Chars[probe.reference], probe.sources)),
                       !.reversed = Some(case_reference_in_sources(
                                           Chars[probe.reference], back))]
    /\ UNCHANGED <<rq, cache, api_key, served, hist>>

\* the coverage test on its own, over references and short lists of sources
SpecCover == InitCover /\ [][CheckCoverage]_vars

\* ------------------------------------------------------------------------
\* Properties
\* ------------------------------------------------------------------------

\* request l made the call op
Made(l, op) == \E i \in DOMAIN l.calls : l.calls[i].op = op

\* a call op of request l raised
Failed(l, op) == \E i \in DOMAIN l.calls : l.calls[i].op = op /\ ~l.calls[i].ok

\* the calls of a request other than those to the cache
Dependencies == {"vector.search", "db.query", "web.search", "llm.create"}

\* C1: a cache backend failure never fails a search request.  When the backend
\* raises during get_cached_response the request stands where a miss leaves
\* it: nothing cached, every local as at the start, the vector search next.
\* When it raises during cache_response the request ends 200 with the response
\* it computed.  A request ends 500 only when a call other than a cache call
\* raised.
CacheFailureNeverFails ==
    \A r \in Reqs :
       LET l == rq[r]
       IN  /\ Failed(l, "cache.get") =>
                /\ l.cached_response = None
                /\ Len(l.calls) = 1 =>
                      [l EXCEPT !.calls = << >>]
                         = [Fresh EXCEPT !.pc = "vector_search", !.query = l.query]
           /\ Failed(l, "cache.setex") =>
                /\ l.pc = "done"
                /\ l.status = 200
                /\ l.returned
                     = Some(ResponseData(l.answer[1], l.case_sources, l.query.mode))
           /\ l.status = 500 => \E op \in Dependencies : Failed(l, op)

\* C1: a request whose cache lookup and cache write both raised ended 200
CacheFailureBothWays ==
    \E r \in Reqs :
       /\ Failed(rq[r], "cache.get")
       /\ Failed(rq[r], "cache.setex")
       /\ rq[r].status = 200
       /\ rq[r].returned # None

\* C2: on a cache hit the request ends 200 with the cached response unchanged,
\* and the cache lookup is the only call it ever makes: no vector search, no
\* corpus store, no web search, no LLM, no cache write.
CacheHitShortCircuits ==
    \A r \in Reqs :
       rq[r].cached_response # None =>
          /\ rq[r].pc = "done"
          /\ rq[r].status = 200
          /\ rq[r].returned = rq[r].cached_response
          /\ rq[r].calls = <<Call("cache.get", TRUE)>>

\* C2: a request was answered from the cache, with sources in the response
CacheHitServed ==
    \E r \in Reqs :
       /\ rq[r].cached_response # None
       /\ rq[r].returned = rq[r].cached_response
       /\ rq[r].returned[1].sources # << >>

\* the request came to the test of line 152: no cache hit, and neither the
\* vector search, nor a corpus lookup, nor the web search raised
PastEvidence(l) ==
    /\ l.pc \in {"respond", "done"}
    /\ l.cached_response = None
    /\ ~Failed(l, "vector.search")
    /\ ~Failed(l, "db.query")
    /\ ~Failed(l, "web.search")

\* C3: a request that came through the evidence fetch and the optional web
\* fetch ends 404 if and only if it holds no case evidence and no web
\* evidence.  A request that ends 404 called neither the LLM nor the cache
\* write and left the store empty, and it stays a 404: a request ends 500
\* only when one of its calls raised.
NotFoundIffNoEvidence ==
    \A r \in Reqs :
       LET l == rq[r]
           empty == /\ l.case_sources = << >>
                    /\ (l.web_sources = None \/ l.web_sources[1] = << >>)
       IN  /\ PastEvidence(l) => (l.status = 404 <=> empty)
           /\ l.status = 404 =>
                /\ PastEvidence(l)
                /\ l.pc = "done"
                /\ l.returned = None
                /\ ~Made(l, "llm.create")
                /\ ~Made(l, "cache.setex")
                /\ cache = EmptyStore
           /\ l.status = 500 => \E op \in Dependencies : Failed(l, op)

\* C3: a hybrid request whose web search answered with no results ended 404
NotFoundAfterEmptyWeb ==
    \E r \in Reqs :
       /\ rq[r].status = 404
       /\ rq[r].vector_results # << >>
       /\ rq[r].case_sources = << >>
       /\ rq[r].web_sources = Some(<< >>)

\* C5: when the synthesis call raises, the request ends 500 with no body, and
\* that call is its last: no cache write follows, so no entry of the store is
\* written or modified.
SynthesisFailureIsFatal ==
    \A r \in Reqs :
       LET l == rq[r]
       IN  Failed(l, "llm.create") =>
              /\ l.pc = "done"
              /\ l.status = 500
              /\ l.returned = None
              /\ l.answer = None
              /\ l.calls[Len(l.calls)] = Call("llm.create", FALSE)
              /\ ~Made(l, "cache.setex")

\* C5: the synthesis call raised for a request that held evidence, while the
\* store held an entry
SynthesisFailed ==
    \E r \in Reqs :
       /\ Failed(rq[r], "llm.create")
       /\ rq[r].case_sources # << >>
       /\ rq[r].status = 500
       /\ cache # EmptyStore

\* C6: when the similarity oracle raises, the request ends 500 and the oracle
\* call is its last and its only one to the oracle: no retry, no corpus
\* lookup, no web search, no LLM call, no cache write.
OracleFailureIsFatal ==
    \A r \in Reqs :
       LET l == rq[r]
       IN  Failed(l, "vector.search") =>
              /\ l.pc = "done"
              /\ l.status = 500
              /\ l.returned = None
              /\ Len(l.calls) = 2
              /\ l.calls[1].op = "cache.get"
              /\ l.calls[2] = Call("vector.search", FALSE)

\* C6: the similarity oracle raised
OracleFailed ==
    \E r \in Reqs : Failed(rq[r], "vector.search") /\ rq[r].status = 500

\* C4: whatever way the web search fails, the request goes on with an empty
\* list of web evidence: once search_legal_content was called the request
\* holds a list of web sources, and it ends 500 only when the synthesis call
\* raised.
WebFailureDegrades ==
    \A r \in Reqs :
       LET l == rq[r]
       IN  Made(l, "web.search") =>
              /\ l.web_sources # None
              /\ l.status = 500 => Failed(l, "llm.create")

\* C4: the provider answered 200 and search_legal_content raised: the request
\* ended 500 with corpus evidence in hand and the LLM never called
WebPayloadSurfaced ==
    \E r \in Reqs :
       /\ Failed(rq[r], "web.search")
       /\ rq[r].calls[Len(rq[r].calls)].op = "http.post"
       /\ rq[r].calls[Len(rq[r].calls)].ok
       /\ rq[r].case_sources # << >>
       /\ rq[r].status = 500
       /\ ~Made(rq[r], "llm.create")

\* C7: a corpus lookup that raises is taken for a missing record: the request
\* goes on to the trigger without that hit and does not end 500 on it.
StoreFailureRecovered ==
    \A r \in Reqs :
       LET l == rq[r]
       IN  Failed(l, "db.query") =>
              /\ l.pc # "resolve"
              /\ l.status = 500 => Failed(l, "llm.create")

\* C7: a corpus lookup raised and the request ended 500 on it
StoreFailureSurfaced ==
    \E r \in Reqs :
       /\ Failed(rq[r], "db.query")
       /\ rq[r].calls[Len(rq[r].calls)] = Call("db.query", FALSE)
       /\ rq[r].vector_results # << >>
       /\ rq[r].status = 500

\* C8: a corpus_only request never calls the web search and never posts to
\* the provider, whatever its text and its evidence: it never stands at the
\* web call, never holds web sources, never sets use_web_search.
CorpusOnlyNeverSearchesWeb ==
    \A r \in Reqs :
       LET l == rq[r]
       IN  l.query.mode = CORPUS_ONLY =>
              /\ l.pc # "web_search"
              /\ ~Made(l, "web.search")
              /\ ~Made(l, "http.post")
              /\ l.web_sources = None
              /\ l.web_result = None
              /\ ~l.use_web_search
              /\ l.trigger_reasons = << >>

\* C8: a corpus_only request that names a year and found no evidence went
\* past the trigger and ended 404
CorpusOnlyWithSignals ==
    \E r \in Reqs :
       /\ rq[r].query.mode = CORPUS_ONLY
       /\ YearsOf[rq[r].query.query] # << >>
       /\ rq[r].case_sources = << >>
       /\ rq[r].status = 404

\* the request evaluated the trigger of lines 117-149
PastTrigger(l) ==
    /\ l.pc \in {"web_search", "synthesize", "respond", "done"}
    /\ l.cached_response = None
    /\ ~Failed(l, "vector.search")
    /\ ~Failed(l, "db.query")

\* the request invoked the web search, or stands at the call
Invoked(l) == l.pc = "web_search" \/ Made(l, "web.search")

RoundTripWhileBackendAnswers ==
    hist.got # None =>
       LET g == hist.got[1]
       IN  g.up /\ g.expect # None =>
              IF g.expect[1].left > 0
                THEN g.result = Some(g.expect[1].response)
                ELSE g.result = None

\* C10: a lookup returned the stored response, with its sources, one tick
\* after it was stored under the default TTL
RoundTripServed ==
    /\ hist.got # None
    /\ hist.got[1].up
    /\ hist.got[1].expect # None
    /\ hist.got[1].expect[1].left = default_ttl - TickSeconds
    /\ hist.got[1].expect[1].response.sources # << >>
    /\ hist.got[1].result = Some(hist.got[1].expect[1].response)

\* C10 as stated: every lookup of a query and mode under which a response was
\* stored, with no later write or invalidation of the key, returns that
\* response while seconds of the TTL remain, and absent once none remain.
RoundTrip ==
    hist.got # None =>
       LET g == hist.got[1]
       IN  g.expect # None =>
              IF g.expect[1].left > 0
                THEN g.result = Some(g.expect[1].response)
                ELSE g.result = None

\* the letters c and d are one letter in two cases
CaseVariants(c, d) ==
    \E n \in DOMAIN UpperChars :
       {c, d} = {UpperChars[n], LowerChars[n]}

\* the texts a and b differ only in letter case and in surrounding
\* whitespace: each is a core between two runs of spaces, and the cores agree
\* character by character up to case
DifferOnlyInCaseAndPadding(a, b) ==
    \E i \in 1..Len(a) + 1, k \in 1..Len(b) + 1 :
       \E n \in 0..Len(a) :
          /\ i + n - 1 <= Len(a)
          /\ k + n - 1 <= Len(b)
          /\ \A x \in (1..i - 1) \cup (i + n..Len(a)) : a[x] = " "
          /\ \A x \in (1..k - 1) \cup (k + n..Len(b)) : b[x] = " "
          /\ \A x \in 0..n - 1 :
                a[i + x] = b[k + x] \/ CaseVariants(a[i + x], b[k + x])

\* C11: normalization is idempotent (the key of the normalized text is the
\* key of the text, and normalizing twice is normalizing once), and under one
\* mode two texts have the same key exactly when they differ only in letter
\* case and surrounding whitespace: a difference in internal whitespace or in
\* punctuation gives different keys.
KeyNormalization ==
    probe # NoProbe /\ probe.key_a # None =>
       /\ probe.key_again = probe.key_a
       /\ NormalizedQuery(NormalizedQuery(probe.a)) = NormalizedQuery(probe.a)
       /\ probe.key_a = probe.key_b <=> DifferOnlyInCaseAndPadding(probe.a, probe.b)

\* C11: two different texts, one padded and in capitals, got the same key
KeyShared ==
    /\ probe # NoProbe
    /\ probe.a = <<" ", "A", ".">>
    /\ probe.b = <<"a", ".", " ">>
    /\ probe.key_a # None
    /\ probe.key_a = probe.key_b

\* C12: a request that ends 200 without a cache hit made one synthesis call,
\* which succeeded and whose text is the answer returned, and it held at
\* least one case evidence item or one web evidence item when it made it.
SuccessIsSynthesized ==
    \A r \in Reqs :
       LET l == rq[r]
       IN  l.status = 200 /\ l.cached_response = None =>
              /\ Made(l, "llm.create")
              /\ ~Failed(l, "llm.create")
              /\ l.answer # None
              /\ l.returned # None
              /\ l.returned[1].answer = l.answer[1]
              /\ \/ l.case_sources # << >>
                 \/ l.web_sources # None /\ l.web_sources[1] # << >>

\* C12: a request answered 200 from web evidence alone
SuccessFromWebAlone ==
    \E r \in Reqs :
       /\ rq[r].status = 200
       /\ rq[r].cached_response = None
       /\ rq[r].case_sources = << >>
       /\ rq[r].web_sources # None
       /\ rq[r].web_sources[1] # << >>

\* C13: the step that returns a freshly computed response ends the request
\* 200 with the cache write as its last call, and when the backend took the
\* write the store then holds, under the key of the request's query and mode,
\* the response returned with the default TTL: an identical request arriving
\* at once, or one tick later, is answered that response from the cache.
FreshResponseIsCached ==
    [][ \A r \in Reqs :
          rq[r].pc = "respond" /\ rq'[r].pc = "done" =>
             LET l == rq'[r]
                 key == KeyOf(l.query.query, l.query.mode)
                 again == [Fresh EXCEPT !.pc = "cache_check", !.query = l.query]
             IN  /\ l.status = 200
                 /\ l.returned # None
                 /\ l.calls[Len(l.calls)].op = "cache.setex"
                 /\ l.calls[Len(l.calls)].ok =>
                       /\ key \in DOMAIN cache'
                       /\ cache'[key].ttl = default_ttl
                       /\ cache'[key].data = Dumps(l.returned[1])
                       /\ Loads(cache'[key].data) = l.returned[1]
                       /\ DoCacheCheck(again, cache', TRUE).status = 200
                       /\ DoCacheCheck(again, cache', TRUE).returned = l.returned
                       /\ DoCacheCheck(again, Expire(cache', TickSeconds), TRUE).returned
                            = l.returned
                       /\ \A k \in DOMAIN cache \ {key} :
                             k \in DOMAIN cache' /\ cache'[k] = cache[k]
      ]_vars

\* C13: a request returned a fresh response with sources and the store holds
\* it under the request's key with the default TTL
FreshResponseStored ==
    \E r \in Reqs :
       LET l == rq[r]
           key == KeyOf(l.query.query, l.query.mode)
       IN  /\ l.status = 200
           /\ l.cached_response = None
           /\ l.calls[Len(l.calls)] = Call("cache.setex", TRUE)
           /\ l.returned[1].sources # << >>
           /\ key \in DOMAIN cache
           /\ cache[key].ttl = default_ttl
           /\ Loads(cache[key].data) = l.returned[1]

\* request w wrote its response to the store after a successful synthesis
Wrote(w) ==
    /\ \E i \in DOMAIN w.calls : w.calls[i] = Call("llm.create", TRUE)
    /\ w.calls[Len(w.calls)] = Call("cache.setex", TRUE)
    /\ w.status = 200

\* C14: under every interleaving of two requests, what a request read from
\* the cache is absent or is exactly the complete response that the other
\* request wrote, after a successful synthesis, under the very key the reader
\* looked up; and a step of a request changes the locals of that request
\* only, and in the store at most the entry of that request's own key, by
\* writing it.
ConcurrentReadsAreWrites ==
    [][ \A r \in Clients :
          /\ rq'[r].cached_response # None =>
                \E w \in Clients \ {r} :
                   /\ Wrote(rq'[w])
                   /\ KeyOf(rq'[w].query.query, rq'[w].query.mode)
                        = KeyOf(rq'[r].query.query, rq'[r].query.mode)
                   /\ rq'[w].returned = rq'[r].cached_response
                   /\ rq'[r].cached_response[1]
                        = SearchResponse(ResponseData(rq'[w].answer[1],
                                                      rq'[w].case_sources,
                                                      rq'[w].query.mode))
          /\ rq'[r] # rq[r] =>
                /\ \A o \in Clients \ {r} : rq'[o] = rq[o]
                /\ api_key' = api_key
                /\ DOMAIN cache \subseteq DOMAIN cache'
                /\ \A k \in DOMAIN cache' :
                      k # KeyOf(rq'[r].query.query, rq'[r].query.mode) =>
                         k \in DOMAIN cache /\ cache'[k] = cache[k]
                /\ cache' # cache => Wrote(rq'[r])
      ]_vars

\* C14: a request was answered from the cache with what the other request,
\* under a text in another letter case, had computed and written
ConcurrentHit ==
    \E r \in Clients, w \in Clients :
       /\ r # w
       /\ rq[r].cached_response # None
       /\ rq[r].query.query # rq[w].query.query
       /\ Wrote(rq[w])
       /\ Len(rq[w].calls) > 2
       /\ rq[w].returned = rq[r].cached_response

\* the request resolved its hits, every lookup answering
PastResolve(l) ==
    /\ l.pc \in {"trigger", "web_search", "synthesize", "respond", "done"}
    /\ l.cached_response = None
    /\ ~Failed(l, "vector.search")
    /\ ~Failed(l, "db.query")

\* C15: once the hits are resolved, case_sources holds one item for each hit
\* whose case id has a record in the corpus, and no other: the k-th such hit,
\* counted in the oracle's order, gives the k-th item, with the hit's score
\* and the record's fields.  A hit without a record adds nothing and does not
\* end the request: a 500 still needs a call that raised.
ResolutionKeepsOrder ==
    \A r \in Reqs :
       LET l == rq[r]
           hits == l.vector_results
           kept == {i \in DOMAIN hits : QueryCase(hits[i].case_id) # None}
           Rank(i) == Cardinality({x \in kept : x <= i})
       IN  PastResolve(l) =>
              /\ Len(l.case_sources) = Cardinality(kept)
              /\ \A i \in kept :
                    LET item == l.case_sources[Rank(i)]
                        case == QueryCase(hits[i].case_id)[1]
                    IN  /\ item.case_id = hits[i].case_id
                        /\ item.score = hits[i].score
                        /\ item.case_name = case.case_name
                        /\ item.citation = case.citation
                        /\ item.year = case.year
              /\ l.status = 500 => \E op \in Dependencies : Failed(l, op)

\* C15: of three hits the middle one had no record; the two others were
\* kept in the oracle's order and the request ended 200
DanglingHitDropped ==
    \E r \in Reqs :
       LET l == rq[r]
       IN  /\ Len(l.vector_results) = 3
           /\ QueryCase(l.vector_results[2].case_id) = None
           /\ Len(l.case_sources) = 2
           /\ l.case_sources[1].case_id = l.vector_results[1].case_id
           /\ l.case_sources[2].case_id = l.vector_results[3].case_id
           /\ l.status = 200

\* C16: a request that has entered the pipeline carries a query with
\* limit > 0, a text that is not empty once trimmed, and one of the two
\* modes.
QueryInvariant ==
    \A r \in Reqs :
       rq[r].pc # "idle" =>
          /\ rq[r].query.limit > 0
          /\ Strip(Chars[rq[r].query.query]) # << >>
          /\ rq[r].query.mode \in {HYBRID, CORPUS_ONLY}

\* C16: a request with a blank text, limit 0 and a mode that is neither of
\* the two went through the cache check and the vector search
UnvalidatedQueryServed ==
    \E r \in Reqs :
       /\ rq[r].query.limit = 0
       /\ Strip(Chars[rq[r].query.query]) = << >>
       /\ rq[r].query.mode \notin {HYBRID, CORPUS_ONLY}
       /\ Made(rq[r], "cache.get")
       /\ Made(rq[r], "vector.search")

\* the HTTP requests of request l, in the order sent
HttpPosts(l) == SelectSeq(l.calls, LAMBDA c : c.op = "http.post")

\* the reply is a provider limitation: HTTP 400, 402 or 403 whose message
\* names the plan or the depth
IsLimitation(post) ==
    /\ post.status \in {400, 402, 403}
    /\ post.body \in {"json_keyword", "text_keyword"}

\* C17: a call of search_legal_content sends at most two HTTP requests, and
\* none without an API key; it sends a second one exactly when the first was
\* refused as a provider limitation, and that one asks for basic depth, at
\* most 3 results and no answer; when the second request fails too, the call
\* returns no results and an error and does not raise.  The call raises only
\* when the last reply it read was a body of an unexpected shape, never on an
\* HTTP error or a network error.
WebSearchFallback ==
    \A r \in Reqs :
       LET l == rq[r]
           posts == HttpPosts(l)
           empty == Some([results |-> << >>, error |-> TRUE])
       IN  Made(l, "web.search") =>
              /\ Len(posts) <= 2
              /\ api_key = "" => posts = << >> /\ l.web_result = empty
              /\ api_key # "" => Len(posts) >= 1
              /\ Len(posts) >= 1 =>
                    /\ posts[1].payload = [search_depth |-> "advanced", max_results |-> 5,
                                           include_answer |-> Some(TRUE)]
                    /\ Len(posts) = 2 <=> IsLimitation(posts[1])
              /\ Len(posts) = 2 =>
                    /\ posts[2].payload = [search_depth |-> "basic", max_results |-> 3,
                                           include_answer |-> None]
                    /\ ~posts[2].ok => ~Failed(l, "web.search") /\ l.web_result = empty
              /\ Failed(l, "web.search") =>
                    posts[Len(posts)].body
                       \in {"list", "dict_nullresults", "text", "json_list"}

\* C17: the first request was refused as a limitation, the basic one failed
\* too, and the request went on with no web results
FallbackFailed ==
    \E r \in Reqs :
       LET posts == HttpPosts(rq[r])
       IN  /\ Len(posts) = 2
           /\ IsLimitation(posts[1])
           /\ ~posts[2].ok
           /\ rq[r].web_sources = Some(<< >>)
           /\ rq[r].status = 200

\* C18: a step of a request never removes an entry of the store; it changes
\* the store only when it responds, and then only the entry of the request's
\* own key, written with the default TTL.  An entry leaves the store only
\* when its TTL runs out, when invalidate_cache is called for its key, or
\* when clear_all_cache is called.
PipelineFrame ==
    [][ /\ \A r \in Reqs :
              rq'[r] # rq[r] =>
                 /\ DOMAIN cache \subseteq DOMAIN cache'
                 /\ rq[r].pc # "respond" => cache' = cache
                 /\ rq[r].pc = "respond" =>
                       \A k \in DOMAIN cache' :
                          \/ k \in DOMAIN cache /\ cache'[k] = cache[k]
                          \/ /\ k = KeyOf(rq[r].query.query, rq[r].query.mode)
                             /\ cache'[k].ttl = default_ttl
        /\ \A k \in DOMAIN cache \ DOMAIN cache' :
              /\ rq' = rq
              /\ \/ cache[k].ttl <= TickSeconds /\ cache' = Expire(cache, TickSeconds)
                 \/ \E q \in FewQueries :
                       /\ KeyOf(q.query, q.mode) = k
                       /\ cache' = InvalidateCache(cache, q.query, q.mode, TRUE)
                 \/ cache' = ClearAllCache(cache, TRUE)
      ]_vars

\* C18: a request wrote its response while the store held an entry under
\* another key, and both entries are there
SecondEntryWritten ==
    \E r \in Reqs :
       /\ rq[r].status = 200
       /\ rq[r].calls[Len(rq[r].calls)] = Call("cache.setex", TRUE)
       /\ Cardinality(DOMAIN cache) = 2
       /\ \E k \in DOMAIN cache : cache[k].ttl < default_ttl

\* the place of a call in the order of the pipeline
Stage(op) ==
    CASE op = "cache.get" -> 1
      [] op = "vector.search" -> 2
      [] op = "db.query" -> 3
      [] op \in {"web.search", "http.post"} -> 4
      [] op = "llm.create" -> 5
      [] op = "cache.setex" -> 6

\* the place of a step in the pipeline
PcRank(pc) ==
    CASE pc = "idle" -> 0
      [] pc = "cache_check" -> 1
      [] pc = "vector_search" -> 2
      [] pc = "resolve" -> 3
      [] pc = "trigger" -> 4
      [] pc = "web_search" -> 5
      [] pc = "synthesize" -> 6
      [] pc = "respond" -> 7
      [] pc = "done" -> 8

\* how many calls op request l made
Count(l, op) == Cardinality({i \in DOMAIN l.calls : l.calls[i].op = op})

\* the four ways a request ends
CachedSuccess(l) ==
    l.status = 200 /\ l.cached_response # None /\ l.returned = l.cached_response

FreshSuccess(l) ==
    /\ l.status = 200 /\ l.cached_response = None /\ l.returned # None
    /\ l.calls[Len(l.calls)].op = "cache.setex"

NotFound(l) == l.status = 404 /\ l.returned = None

ServiceError(l) == l.status = 500 /\ l.returned = None

\* C19: the calls of a request follow the order cache get, vector search,
\* corpus lookups, web search, LLM synthesis, cache put, the first being the
\* cache get; the cache get, the vector search, the web search, the
\* synthesis and the cache put are each made at most once; every step of a
\* request in flight moves it forward, a request that has not ended has no
\* outcome, and a request that has ended has exactly one of the four
\* outcomes.  Stated of every step that changes a request.
CallOrderAndOutcome ==
    [][ \A r \in Reqs :
          rq'[r] # rq[r] =>
             LET l == rq'[r]
                 outcomes == {o \in {"cached", "fresh", "not_found", "error"} :
                                \/ o = "cached" /\ CachedSuccess(l)
                                \/ o = "fresh" /\ FreshSuccess(l)
                                \/ o = "not_found" /\ NotFound(l)
                                \/ o = "error" /\ ServiceError(l)}
             IN  /\ \A i \in 1..Len(l.calls) - 1 :
                       Stage(l.calls[i].op) <= Stage(l.calls[i + 1].op)
                 /\ l.calls # << >> => l.calls[1].op = "cache.get"
                 /\ \A op \in {"cache.get", "vector.search", "web.search",
                               "llm.create", "cache.setex"} : Count(l, op) <= 1
                 /\ Count(l, "db.query") <= Len(l.vector_results)
                 /\ rq[r].pc # "done" => PcRank(l.pc) > PcRank(rq[r].pc)
                 /\ l.pc # "done" => l.status = 0 /\ l.returned = None
                 /\ l.pc = "done" => Cardinality(outcomes) = 1
      ]_vars

\* C19: a request made every kind of call and ended with a fresh response
EveryCallMade ==
    \E r \in Reqs :
       /\ \A op \in {"cache.get", "vector.search", "db.query", "web.search",
                     "http.post", "llm.create", "cache.setex"} : Made(rq[r], op)
       /\ Count(rq[r], "http.post") = 2
       /\ FreshSuccess(rq[r])

\* the four kinds of reason, in the order of lines 134-141
ReasonKinds ==
    <<"Low confidence", "Fewer than 2 corpus matches", "Query references year",
      "Case missing from corpus">>

\* C20: for a hybrid request that evaluated the trigger, the kinds of the
\* reasons recorded are the kinds whose predicate holds, each once, in the
\* order low confidence, sparse, recency gap, reference missing: every
\* predicate that holds is recorded, whatever the others are.
ReasonsAccumulate ==
    \A r \in Reqs :
       LET l == rq[r]
           text == l.query.query
           n == Len(l.case_sources)
           total == SeqSum([i \in 1..n |-> l.case_sources[i].score])
           If(p, k) == IF p THEN <<ReasonKinds[k]>> ELSE << >>
       IN  l.query.mode = HYBRID /\ PastTrigger(l) =>
              [j \in DOMAIN l.trigger_reasons |-> l.trigger_reasons[j].kind]
                 = If(IF n = 0 THEN TRUE ELSE total < 50 * n, 1)
                   \o If(n < 2, 2)
                   \o If(RecencyGap(text, l.case_sources), 3)
                   \o If(ReferenceOf[text] # None
                           /\ ~ReferenceFound(text, l.case_sources), 4)

\* C20: all four predicates held at once and four reasons were recorded
FourReasons ==
    \E r \in Reqs :
       /\ rq[r].query.mode = HYBRID
       /\ rq[r].case_sources = << >>
       /\ Len(rq[r].trigger_reasons) = 4
       /\ rq[r].trigger_reasons[3].kind = "Query references year"
       /\ rq[r].trigger_reasons[4].kind = "Case missing from corpus"

\* the reasons of kind "Query references year" a request recorded
YearReasons(l) ==
    {l.trigger_reasons[j] : j \in {i \in DOMAIN l.trigger_reasons :
                                     l.trigger_reasons[i].kind = "Query references year"}}

ReferenceCoverage ==
    probe # NoProbe /\ probe.covered # None =>
       LET ref == Chars[probe.reference]
           low(t) == Lower(Chars[t])
           norm(t) == Replace(Replace(Lower(Chars[t]), CoDot, Company), CorpDot, Corporation)
           names == {probe.sources[i].case_name : i \in DOMAIN probe.sources}
           citations == {probe.sources[i].citation : i \in DOMAIN probe.sources}
       IN  /\ probe.covered[1] <=>
                \/ \E t \in names \cup citations : IsSubstr(Lower(ref), low(t))
                \/ \E t \in names : IsSubstr(norm(probe.reference), norm(t))
           /\ probe.reversed = probe.covered
           /\ probe.reference = "Smith Co. v. Jones" =>
                /\ "Smith Company v. Jones Corp." \in names => probe.covered[1]
                /\ names = {"Smith Co. v. Brown"} => ~probe.covered[1]

\* C22: "Smith Co. v. Jones" was found covered by a list whose second source
\* is "Smith Company v. Jones Corp." and whose first is "Smith Co. v. Brown"
CoveredByExpansion ==
    /\ probe # NoProbe
    /\ probe.reference = "Smith Co. v. Jones"
    /\ Len(probe.sources) = 2
    /\ probe.sources[1].case_name = "Smith Co. v. Brown"
    /\ probe.sources[2].case_name = "Smith Company v. Jones Corp."
    /\ probe.covered = Some(TRUE)

\* the positions of the evidence whose citation or name stands in the answer
Appearing(p) ==
    {i \in DOMAIN p.case_sources :
        \/ IsSubstr(Chars[p.case_sources[i].citation], Chars[p.answer])
        \/ IsSubstr(Chars[p.case_sources[i].case_name], Chars[p.answer])}

\* citations is the list of the items of sources at the positions of idx, in
\* the order of sources
ListsInOrder(citations, sources, idx) ==
    /\ Len(citations) = Cardinality(idx)
    /\ \A k \in DOMAIN citations :
          LET i == CHOOSE a \in idx : Cardinality({b \in idx : b < a}) = k - 1
          IN  citations[k] = [case_name |-> sources[i].case_name,
                              citation |-> sources[i].citation,
                              case_id |-> sources[i].case_id]

\* C23 as stated: citations_used lists, in evidence order, exactly the items
\* of the evidence whose citation or name stands verbatim in the answer.
CitationsUsedAllItems ==
    probe # NoProbe /\ probe.outcome = "return" =>
       ListsInOrder(probe.citations_used, probe.case_sources, Appearing(probe))

\* C23: citations_used lists, in evidence order, exactly the items of the
\* evidence that have a citation and whose citation or name stands verbatim
\* in the answer; an item without citation is never listed.
CitationsUsedOfCitedItems ==
    probe # NoProbe /\ probe.outcome = "return" =>
       ListsInOrder(probe.citations_used, probe.case_sources,
                    {i \in Appearing(probe) : probe.case_sources[i].citation # ""})

\* C23: the answer names "In re Doe"; of two items of that name, the first
\* without citation, only the second is listed
UncitedItemSkipped ==
    /\ probe # NoProbe
    /\ probe.outcome = "return"
    /\ probe.answer = "In re Doe"
    /\ Len(probe.case_sources) = 2
    /\ probe.case_sources[1].citation = ""
    /\ probe.case_sources[2].citation = "2 F. 3"
    /\ Len(probe.citations_used) = 1
    /\ probe.citations_used[1].citation = "2 F. 3"

\* the request sent a context to the provider
Sent(l) == Made(l, "llm.create")

\* C24: the context sent to the provider opens with the case header and all
\* the case evidence, in evidence order; a web section follows it if and only
\* if the request is hybrid, a trigger fired and the web search returned one
\* result at least, and it then lists those results; a corpus_only request,
\* and a request no trigger fired for, sends no web part.
ContextOrder ==
    \A r \in Reqs :
       LET l == rq[r]
           c == l.context
           n == Len(l.case_sources)
           fetched == l.web_result # None /\ l.web_result[1].results # << >>
           web == l.query.mode = HYBRID /\ l.trigger_reasons # << >> /\ fetched
       IN  /\ ~Sent(l) => c = << >>
           /\ Sent(l) =>
                /\ Len(c) >= n + 1
                /\ c[1].part = "RELEVANT CASE LAW:"
                /\ \A i \in 1..n :
                      /\ c[i + 1].part = "case"
                      /\ c[i + 1].idx = i
                      /\ c[i + 1].case_name = l.case_sources[i].case_name
                      /\ c[i + 1].citation = l.case_sources[i].citation
                /\ web <=> Len(c) > n + 1
                /\ web =>
                      /\ Len(c) = n + 2 + Len(l.web_result[1].results)
                      /\ c[n + 2].part = "ADDITIONAL WEB SOURCES:"
                      /\ \A j \in n + 3..Len(c) : c[j].part = "web"
                /\ (l.query.mode # HYBRID \/ l.trigger_reasons = << >>) =>
                      \A j \in DOMAIN c : c[j].part # "web"

\* C24: a hybrid request with two items of evidence and one web result sent
\* a context of five parts, the web section last
ContextWithWeb ==
    \E r \in Reqs :
       /\ Sent(rq[r])
       /\ rq[r].query.mode = HYBRID
       /\ Len(rq[r].case_sources) = 2
       /\ Len(rq[r].context) = 5
       /\ rq[r].context[4].part = "ADDITIONAL WEB SOURCES:"
       /\ rq[r].context[5].part = "web"

\* C25 as stated: requests of different mode, or of different normalized
\* text, have different cache keys, so the response a request finds in the
\* cache was computed for a request of its own mode.
CacheKeysInjective ==
    \A r \in Reqs :
       rq[r].cached_response # None => rq[r].cached_response[1].mode = rq[r].query.mode

\* C25: the hybrid request for ":law" was answered from the cache, without any
\* search, with the response computed for the request of mode "hybrid:" for
\* "law"
ForeignResponseServed ==
    \E r \in Reqs :
       /\ rq[r].query = [query |-> ":law", mode |-> HYBRID, limit |-> 10]
       /\ rq[r].status = 200
       /\ rq[r].returned # None
       /\ rq[r].returned[1].mode = "hybrid:"
       /\ ~Made(rq[r], "vector.search")

\* C26: the sources of a freshly computed success response are, one for one
\* and in the oracle's order, the hits whose case has a record: the k-th
\* source carries the names of the record of the k-th such hit and that hit's
\* score as relevance_score.  Web results add no entry, and the list is the
\* same whatever the answer says; a resolved hit of score 0.9 is among them.
SourcesAreTheEvidence ==
    \A r \in Reqs :
       LET l == rq[r]
           hits == l.vector_results
           kept == {i \in DOMAIN hits : hits[i].case_id \in DOMAIN CaseTable}
           Rank(i) == Cardinality({x \in kept : x <= i})
       IN  FreshSuccess(l) =>
              LET sources == l.returned[1].sources
              IN  /\ Len(sources) = Cardinality(kept)
                  /\ \A i \in kept :
                        LET case == CaseTable[hits[i].case_id]
                        IN  /\ sources[Rank(i)].case_name = case.case_name
                            /\ sources[Rank(i)].citation = case.citation
                            /\ sources[Rank(i)].court = case.court
                            /\ sources[Rank(i)].year = case.year
                            /\ sources[Rank(i)].relevance_score = hits[i].score
                  /\ \A k \in DOMAIN sources : sources[k].url # WebItem(1).url

\* C26: a fresh success of three hits, the second without record, and one web
\* result: two sources, of the first and the third hit, and none of the web
SourcesWithoutWeb ==
    \E r \in Reqs :
       /\ FreshSuccess(rq[r])
       /\ Len(rq[r].vector_results) = 3
       /\ rq[r].vector_results[2].case_id = 4
       /\ rq[r].web_sources # None
       /\ rq[r].web_sources[1] # << >>
       /\ Len(rq[r].returned[1].sources) = 2
       /\ rq[r].returned[1].sources[1].relevance_score = 90
       /\ rq[r].returned[1].sources[2].relevance_score = 30

\* C27: a success response without sources comes only from a hybrid request
\* that had no case evidence and whose web search returned one result at
\* least.  A success response of any other mode, or of a request whose web
\* search was disabled (no API key), was not made, or failed, has a source.
EmptySourcesOnlyFromWeb ==
    \A r \in Reqs :
       LET l == rq[r]
           fetched == l.web_result # None /\ l.web_result[1].results # << >>
       IN  l.status = 200 =>
              /\ l.returned[1].sources = << >> =>
                    /\ l.query.mode = HYBRID
                    /\ l.case_sources = << >>
                    /\ fetched
                    /\ api_key # ""
              /\ ( \/ l.query.mode # HYBRID
                   \/ api_key = ""
                   \/ l.web_result = None
                   \/ l.web_result[1].error ) => l.returned[1].sources # << >>

\* C27: a hybrid request without case evidence succeeded on one web result,
\* with an empty list of sources
SuccessWithoutSources ==
    \E r \in Reqs :
       /\ rq[r].status = 200
       /\ rq[r].query.mode = HYBRID
       /\ rq[r].vector_results # << >>
       /\ rq[r].case_sources = << >>
       /\ Len(rq[r].web_result[1].results) = 1
       /\ rq[r].returned[1].sources = << >>

\* the kinds of the reasons a request recorded
KindsOf(l) == {l.trigger_reasons[j].kind : j \in DOMAIN l.trigger_reasons}

\* C28: when no score the oracle returned is under 0.5, the scores of the
\* evidence average under 0.5 (the average being 0 without evidence) only if
\* there is no evidence; so a request that records "Low confidence" records
\* "Fewer than 2 corpus matches" too, and never "Low confidence" alone.
LowConfidenceImpliesSparse ==
    \A r \in Reqs :
       LET l == rq[r]
           n == Len(l.case_sources)
           total == SeqSum([i \in 1..n |-> l.case_sources[i].score])
           low == IF n = 0 THEN 0 < 50 ELSE total < 50 * n
       IN  ( /\ PastTrigger(l)
             /\ \A i \in DOMAIN l.vector_results : l.vector_results[i].score >= 50 ) =>
              /\ low => l.case_sources = << >>
              /\ "Low confidence" \in KindsOf(l) <=>
                    (l.query.mode = HYBRID /\ l.case_sources = << >>)
              /\ "Low confidence" \in KindsOf(l) =>
                    "Fewer than 2 corpus matches" \in KindsOf(l)
              /\ KindsOf(l) # {"Low confidence"}

\* C28: a hybrid request whose one item of evidence scores exactly 0.5
\* recorded the one reason that it has fewer than 2 matches
ThresholdScoreNotLow ==
    \E r \in Reqs :
       /\ rq[r].query.mode = HYBRID
       /\ Len(rq[r].case_sources) = 1
       /\ rq[r].case_sources[1].score = 50
       /\ PastTrigger(rq[r])
       /\ KindsOf(rq[r]) = {"Fewer than 2 corpus matches"}

\* the web search of the request failed and was answered without results
WebFailed(l) ==
    /\ l.query.mode = HYBRID
    /\ l.web_result # None
    /\ l.web_result[1].error
    /\ l.web_result[1].results = << >>
    /\ \E i \in DOMAIN l.calls : l.calls[i].op = "http.post" /\ ~l.calls[i].ok

EveryCaseIsEmbedded ==
    /\ \A i \in DOMAIN probe.cases : i \in probe.points /\ i \in probe.tracked
    /\ probe.returned # None =>
          probe.returned[1] \in probe.points /\ probe.returned[1] \in probe.tracked

\* C30: a call returned, as ingested, a row of cases that has no point in the
\* vector store
OrphanReturned ==
    /\ probe.returned # None
    /\ probe.returned[1] \in DOMAIN probe.cases
    /\ probe.returned[1] \notin probe.points
    /\ probe.returned[1] \notin probe.tracked

====
